---- MODULE Spec2Model ----
(***************************************************************************)
(* A model of the stream-reuse core of bodgit/sevenzip: the folder         *)
(* read-closer (Seek), the per-folder pools, File.Open / fileReader.Read / *)
(* fileReader.Close, Reader.init's file index and pool assignment, the     *)
(* coder graph (FolderReader) and the volume opener (openReader).          *)
(***************************************************************************)
EXTENDS Integers, Sequences, FiniteSets, TLC

VARIABLES
  hdr,        \* the parsed header: files, substream counts, folders, encoded-header folder
  opened,     \* "new" | "ok" | "failed": Reader.init not run / succeeded / returned an error
  File,       \* z.File: per file [empty, folder, offset, size]
  poolKind,   \* z.pool[i]: "noop" | "lru"
  cache,      \* per folder: the LRU cache, oldest first, entries [key, rc]
  blocked,    \* per folder: the pool mutex is held by a Put that never returns
  pipes,      \* every folderReadCloser built so far: [folder, pos, size, closes, enc]
  builds,     \* per folder: number of FolderReader calls made by File.Open
  readers,    \* every fileReader returned so far; eof: the pipeline ended before fr.n bytes
  lastErr,    \* the error value the last call handed to the caller (NoErr: none)
  volClosed,  \* ReadCloser.Close has been called
  faults,     \* decoder / closer failures injected so far
  disc,       \* per folder: the caller has followed archive order, close before next open
  hung,       \* callers that entered a pool call and never return
  lastGet,    \* record of the last pool.Get call
  lastPut,    \* record of the last pool.Put call
  held,       \* pool harness: pipelines the client holds outside the pool
  seekSt,     \* seek harness: one folderReadCloser and its last Seek call
  volSt,      \* openReader harness
  sigSt,      \* signature harness: the source and the outcome of the signature search
  frSt,       \* coder-graph harness: a folder and the outcome of FolderReader
  aesSt,      \* AES decoder harness: one aes7z readCloser and its last call
  regSt,      \* registry harness: the decompressor map and its last lookup
  listSt,     \* file-list harness: the entries, the file list and the last Open by path
  siSt,       \* streams-info harness: the records read and the outcome of readStreamsInfo
  goSt,       \* goroutine harness: one LRU pool, its mutex, the pipelines and the callers
  keySt,      \* key harness: a coder's property bytes and the AES readers built from them
  deltaSt,    \* Delta harness: one delta readCloser, its input and the bytes it returned
  fiSt,       \* files-info harness: the EmptyStream / EmptyFile records and the outcome
  braSt       \* branch-filter harness: one bra readCloser, its input and the bytes returned

vars == << hdr, opened, File, poolKind, cache, blocked, pipes, builds, readers,
           lastErr, volClosed, faults, disc, hung, lastGet, lastPut, held,
           seekSt, volSt, sigSt, frSt, aesSt, regSt, listSt, siSt,
           goSt, keySt, deltaSt, fiSt, braSt >>

(***************************************************************************)
(* Bounds of the model.                                                    *)
(***************************************************************************)
MaxFiles == 3       \* files per archive of the header harness
MaxFolders == 2     \* folders per archive of the header harness
MaxOpens == 2       \* File.Open calls that return a reader, per run
MaxFaults == 1      \* injected decoder / closer failures per run
MaxRead == 2        \* len(p) of one Read call
NumCPU == 2         \* runtime.NumCPU(): capacity of an LRU pool
IntBits == 5        \* width of the model's int64
MaxSeekSize == 3    \* folder size in the seek harness
MaxPoolPipes == 3   \* pipelines of the pool harness
MaxPoolOff == 2     \* offsets of the pool harness
MaxParts == 3       \* volumes that exist in the openReader harness
MaxPartSize == 2    \* size of one volume
MaxNear == 7        \* signature harness: distance of a signature from a chunk boundary
MaxSigs == 2        \* signature harness: signatures in one source
MaxFileSize == 2    \* index harness: uncompressed size of one file
MaxCoders == 2      \* folder harness: coders in one folder
MaxCoderIO == 2     \* folder harness: input (1..) and output (0..) streams of one coder
MaxStream == 2      \* folder harness: greatest stream index written in a bind pair or packed list
MaxBlocks == 2      \* AES harness: cipher blocks in the underlying stream
MaxTail == 1        \* AES harness: bytes of a partial block after the whole blocks
MaxCustom == 2      \* registry harness: method ids and decompressors of the client
MaxEntries == 2     \* filesystem harness: entries of the archive
MaxElem == 2        \* filesystem harness: distinct path elements
MaxIds == 4         \* streams-info harness: property ids in the record
MaxEdge == 1        \* signature harness: chunk boundaries taken at each end of the range

(***************************************************************************)
(* io.Seek* whence values.                                                 *)
(***************************************************************************)
SeekStart == 0
SeekCurrent == 1
SeekEnd == 2

(***************************************************************************)
(* The signature search of reader.go and the sizes of the two headers.     *)
(***************************************************************************)
chunkSize == 4096
searchLimit == 2 ^ 20
SigLen == 6
BlockSize == 16
SigHeaderLen == 12
StartHeaderLen == 20

(***************************************************************************)
(* Helpers.                                                                *)
(***************************************************************************)
Range(s) == { s[i] : i \in 1..Len(s) }

RECURSIVE SumSeq(_)
SumSeq(s) == IF s = << >> THEN 0 ELSE s[1] + SumSeq(Tail(s))

Min2(a, b) == IF a < b THEN a ELSE b

\* int64 arithmetic, scaled to IntBits bits: two's complement wrap-around
IntMod == 2 ^ IntBits
MaxInt == (IntMod \div 2) - 1
MinInt == 0 - (IntMod \div 2)
Wrap(x) == ((x + (IntMod \div 2)) % IntMod) - (IntMod \div 2)

(***************************************************************************)
(* folderReadCloser.Seek.  pos is rc.wc.Count(), size is rc.size; fail is  *)
(* -1 when the discarding reads succeed, else the number of bytes          *)
(* discarded before the underlying Read returned an error.                 *)
(***************************************************************************)
SeekTarget(pos, size, offset, whence) ==
  CASE whence = SeekStart -> offset
    [] whence = SeekCurrent -> Wrap(pos + offset)
    [] whence = SeekEnd -> Wrap(size + offset)
    [] OTHER -> 0

\* a faulty Seek: the target is accepted but nothing is read and discarded
SeekNoDiscard(pos, size, offset, whence, fail) ==
  LET newo == SeekTarget(pos, size, offset, whence) IN
  IF whence \notin {SeekStart, SeekCurrent, SeekEnd}
    THEN [n |-> 0, err |-> "errInvalidWhence", pos |-> pos]
  ELSE IF newo < 0
    THEN [n |-> 0, err |-> "errNegativeSeek", pos |-> pos]
  ELSE IF newo < pos
    THEN [n |-> 0, err |-> "errSeekBackwards", pos |-> pos]
  ELSE IF newo > size
    THEN [n |-> 0, err |-> "errSeekEOF", pos |-> pos]
  ELSE [n |-> newo, err |-> "nil", pos |-> pos]

\* a faulty Seek: a target equal to Size is refused as beyond EOF
SeekOffByOne(pos, size, offset, whence, fail) ==
  LET newo == SeekTarget(pos, size, offset, whence) IN
  IF whence \notin {SeekStart, SeekCurrent, SeekEnd}
    THEN [n |-> 0, err |-> "errInvalidWhence", pos |-> pos]
  ELSE IF newo < 0
    THEN [n |-> 0, err |-> "errNegativeSeek", pos |-> pos]
  ELSE IF newo < pos
    THEN [n |-> 0, err |-> "errSeekBackwards", pos |-> pos]
  ELSE IF newo >= size
    THEN [n |-> 0, err |-> "errSeekEOF", pos |-> pos]
  ELSE IF fail >= 0 /\ fail < newo - pos
    THEN [n |-> 0, err |-> "errSeeking", pos |-> pos + fail]
  ELSE [n |-> newo, err |-> "nil", pos |-> newo]

Seek(pos, size, offset, whence, fail) ==
  LET newo == SeekTarget(pos, size, offset, whence) IN
  IF whence \notin {SeekStart, SeekCurrent, SeekEnd}
    THEN [n |-> 0, err |-> "errInvalidWhence", pos |-> pos]
  ELSE IF newo < 0
    THEN [n |-> 0, err |-> "errNegativeSeek", pos |-> pos]
  ELSE IF newo < pos
    THEN [n |-> 0, err |-> "errSeekBackwards", pos |-> pos]
  ELSE IF newo > size
    THEN [n |-> 0, err |-> "errSeekEOF", pos |-> pos]
  ELSE IF fail >= 0 /\ fail < newo - pos
    THEN [n |-> 0, err |-> "errSeeking", pos |-> pos + fail]
  ELSE [n |-> newo, err |-> "nil", pos |-> newo]

(***************************************************************************)
(* crc32.NewIEEE: the reflected CRC-32 with polynomial 0xedb88320, and the *)
(* tee of newFolderReadCloser, which writes every byte read from the       *)
(* decoder to the hash and to the WriteCounter.                            *)
(***************************************************************************)
RECURSIVE Xor(_, _)
Xor(a, b) ==
  IF a = 0 THEN b
  ELSE IF b = 0 THEN a
  ELSE 2 * Xor(a \div 2, b \div 2) + ((a + b) % 2)

\* a 32-bit word is [hi, lo], its two 16-bit halves
Half == 2 ^ 16

IEEE == [hi |-> 60856, lo |-> 33568]

Zero32 == [hi |-> 0, lo |-> 0]

Xor32(x, y) == [hi |-> Xor(x.hi, y.hi), lo |-> Xor(x.lo, y.lo)]

Not32(x) == [hi |-> Half - 1 - x.hi, lo |-> Half - 1 - x.lo]

Shr32(x) == [hi |-> x.hi \div 2, lo |-> (x.lo \div 2) + (x.hi % 2) * (Half \div 2)]

RECURSIVE CrcShift(_, _)
CrcShift(crc, k) ==
  IF k = 0 THEN crc
  ELSE CrcShift(IF crc.lo % 2 = 1 THEN Xor32(Shr32(crc), IEEE) ELSE Shr32(crc), k - 1)

\* crc32.IEEETable (simpleMakeTable)
IEEETable == [b \in 0..255 |-> CrcShift([hi |-> 0, lo |-> b], 8)]

Shr8(x) == [hi |-> x.hi \div 256, lo |-> (x.lo \div 256) + (x.hi % 256) * 256]

\* crc32.Update(crc, IEEETable, p):
\* crc = ^crc; for each v: crc = tab[byte(crc)^v] ^ (crc >> 8); return ^crc
RECURSIVE Crc32Update(_, _)
Crc32Update(crc, p) ==
  IF p = << >> THEN crc
  ELSE LET c == Not32(Crc32Update(crc, SubSeq(p, 1, Len(p) - 1))) IN
       Not32(Xor32(IEEETable[Xor(c.lo % 256, p[Len(p)])], Shr8(c)))

\* byte i (from 0) of the folder's decoded output
Decoded(i) == (i * 151 + 7) % 256

\* the n bytes the decoder yields from position pos on
DecodedFrom(pos, n) == [k \in 1..n |-> Decoded(pos + k - 1)]

\* a faulty tee: the bytes are counted and not hashed
TeeCountOnly(h, pos, n) == h

\* the hash after the tee has written the n bytes read at position pos
TeeWrite(h, pos, n) == Crc32Update(h, DecodedFrom(pos, n))

(***************************************************************************)
(* The LRU cache (oldest entry first) as pool.go uses it.                  *)
(***************************************************************************)
LruKeys(c) == [i \in 1..Len(c) |-> c[i].key]

LruContains(c, k) == \E i \in 1..Len(c) : c[i].key = k

LruIndex(c, k) == CHOOSE i \in 1..Len(c) : c[i].key = k

\* a faulty removal: the entry stays in the cache
LruKeepEntry(c, k) == c

LruRemoveWithoutEvict(c, k) ==
  IF LruContains(c, k)
    THEN LET i == LruIndex(c, k) IN SubSeq(c, 1, i - 1) \o SubSeq(c, i + 1, Len(c))
    ELSE c

\* cache.Get: the value, and the entry becomes the most recently used
LruGet(c, k) ==
  IF LruContains(c, k)
    THEN LET e == c[LruIndex(c, k)] IN
         [ok |-> TRUE, rc |-> e.rc, cache |-> Append(LruRemoveWithoutEvict(c, k), e)]
    ELSE [ok |-> FALSE, rc |-> 0, cache |-> c]

\* cache.ContainsOrAdd: nothing changes when the key is present; otherwise the
\* entry is added and, over capacity, the oldest entry is evicted
LruContainsOrAdd(c, k, v, cap) ==
  IF LruContains(c, k)
    THEN [ok |-> TRUE, cache |-> c, evicted |-> 0]
    ELSE LET added == Append(c, [key |-> k, rc |-> v]) IN
         IF Len(added) > cap
           THEN [ok |-> FALSE, cache |-> Tail(added), evicted |-> added[1].rc]
           ELSE [ok |-> FALSE, cache |-> added, evicted |-> 0]

\* sort.Slice(keys, keys[i] > keys[j]): descending
RECURSIVE SortDesc(_)
SortDesc(ks) ==
  IF ks = {} THEN << >>
  ELSE LET m == CHOOSE x \in ks : \A y \in ks : y <= x IN
       << m >> \o SortDesc(ks \ {m})

\* a faulty search: the greatest key, whether or not it is below offset
FirstKey(keys, offset) ==
  IF keys = << >> THEN -1 ELSE keys[1]

\* the loop over the sorted keys: the first key less than offset, -1 if none
RECURSIVE FirstLess(_, _)
FirstLess(keys, offset) ==
  IF keys = << >> THEN -1
  ELSE IF keys[1] < offset THEN keys[1]
  ELSE FirstLess(Tail(keys), offset)

(***************************************************************************)
(* pool.Get and noopPool.Get.  closed: the pipelines an eviction callback  *)
(* ran on (none: the entry is taken out with RemoveWithoutEvict).          *)
(***************************************************************************)
\* a faulty Get: only the exact key is looked up
PoolGetExactOnly(c, offset) ==
  LET exact == LruGet(c, offset) IN
  IF exact.ok
    THEN [rc |-> exact.rc, ok |-> TRUE, closed |-> {},
          cache |-> LruRemoveWithoutEvict(exact.cache, offset)]
    ELSE [rc |-> 0, ok |-> FALSE, closed |-> {}, cache |-> c]

PoolGet(c, offset) ==
  LET exact == LruGet(c, offset) IN
  IF exact.ok
    THEN [rc |-> exact.rc, ok |-> TRUE, closed |-> {},
          cache |-> LruRemoveWithoutEvict(exact.cache, offset)]
  ELSE LET k == FirstLess(SortDesc(Range(LruKeys(c))), offset) IN
       IF k >= 0
         THEN LET g == LruGet(c, k) IN
              [rc |-> g.rc, ok |-> TRUE, closed |-> {},
               cache |-> LruRemoveWithoutEvict(g.cache, k)]
         ELSE [rc |-> 0, ok |-> FALSE, closed |-> {}, cache |-> c]

NoopGet(c, offset) == [rc |-> 0, ok |-> FALSE, closed |-> {}, cache |-> c]

(***************************************************************************)
(* pool.Put.  The eviction callback closes the evicted pipeline inside     *)
(* ContainsOrAdd; when that Close returns an error the callback sends it   *)
(* on the unbuffered channel errs, and the only receive is the select that *)
(* follows ContainsOrAdd in the same call: the send never completes        *)
(* (blocks), Put never returns and the mutex stays locked.                 *)
(***************************************************************************)
\* a faulty Put: the pipeline is stored under key 0 whatever its position
PoolPutAtZero(c, offset, rc, closeFails) ==
  LET r == LruContainsOrAdd(c, 0, rc, NumCPU) IN
  [cache |-> r.cache, ok |-> r.ok, evicted |-> r.evicted,
   blocks |-> (r.evicted # 0 /\ closeFails), err |-> "nil"]

PoolPut(c, offset, rc, closeFails) ==
  LET r == LruContainsOrAdd(c, offset, rc, NumCPU) IN
  [cache |-> r.cache, ok |-> r.ok, evicted |-> r.evicted,
   blocks |-> (r.evicted # 0 /\ closeFails), err |-> "nil"]

(***************************************************************************)
(* The coder graph.  A folder is [coder, bindPair, packed]; a coder is     *)
(* [method, in, out]; stream indices count from 0 as in the source.        *)
(* A build fault is [at, kind]: the decompressor constructor of coder at   *)
(* fails (kind "dcomp") or its Password call fails (kind "password");      *)
(* at = -1 is no fault.                                                    *)
(***************************************************************************)
NoFault == [at |-> -1, kind |-> "none"]

IsCrypto(c) == c.method = "aes"

FolderIn(f) == SumSeq([i \in 1..Len(f.coder) |-> f.coder[i].in])

FolderOut(f) == SumSeq([i \in 1..Len(f.coder) |-> f.coder[i].out])

\* folder.findInBindPair / findOutBindPair: is there a pair, and its other side
HasInBindPair(f, i) == \E k \in 1..Len(f.bindPair) : f.bindPair[k].in = i
FindInBindPair(f, i) ==
  f.bindPair[CHOOSE k \in 1..Len(f.bindPair) :
               /\ f.bindPair[k].in = i
               /\ \A m \in 1..(k - 1) : f.bindPair[m].in # i]
HasOutBindPair(f, i) == \E k \in 1..Len(f.bindPair) : f.bindPair[k].out = i

\* folder.coderReader: [err, isEncrypted]
CoderReader(f, i, fault) ==
  LET c == f.coder[i + 1] IN
  IF c.method = "unknown" THEN [err |-> "errAlgorithm", enc |-> FALSE]
  ELSE IF fault.at = i /\ fault.kind = "dcomp" THEN [err |-> "errDecompressor", enc |-> FALSE]
  ELSE IF IsCrypto(c) /\ fault.at = i /\ fault.kind = "password"
    THEN [err |-> "errPassword", enc |-> TRUE]
  ELSE [err |-> "nil", enc |-> IsCrypto(c)]

\* the loop over f.coder of streamsInfo.FolderReader, from coder i on;
\* inW: the wired input slots, outB: the outputs built so far.  out[bp.out]
\* indexes a slice of f.out elements: a bind pair whose out is not below f.out
\* makes the first unwired input that meets it panic.
RECURSIVE FolderReaderFrom(_, _, _, _, _, _, _, _)
FolderReaderFrom(f, i, inW, outB, hasEncryption, input, output, fault) ==
  IF i = Len(f.coder)
    THEN LET unbound == { o \in 0..(FolderOut(f) - 1) : ~HasOutBindPair(f, o) } IN
         IF Cardinality(unbound) # 1 \/ ~(unbound \subseteq outB)
           THEN [err |-> "errNoUnboundStream", enc |-> hasEncryption, out |-> -1]
           ELSE [err |-> "nil", enc |-> hasEncryption, out |-> CHOOSE o \in unbound : TRUE]
  ELSE LET c == f.coder[i + 1]
           slots == input..(input + c.in - 1)
           cr == CoderReader(f, i, fault)
           bad == { j \in slots : /\ j \notin inW
                                  /\ \/ ~HasInBindPair(f, j)
                                     \/ FindInBindPair(f, j).out \notin outB }
       IN
       IF c.out # 1
         THEN [err |-> "errMultipleOutputStreams", enc |-> hasEncryption, out |-> -1]
       ELSE IF bad # {}
         THEN LET j == CHOOSE x \in bad : \A y \in bad : x <= y IN
              IF HasInBindPair(f, j) /\ FindInBindPair(f, j).out >= FolderOut(f)
                THEN [err |-> "panic", enc |-> hasEncryption, out |-> -1]
                ELSE [err |-> "errNoBoundStream", enc |-> hasEncryption, out |-> -1]
       ELSE IF cr.err # "nil"
         THEN [err |-> cr.err, enc |-> hasEncryption, out |-> -1]
       ELSE FolderReaderFrom(f, i + 1, inW \cup slots, outB \cup {output},
                             hasEncryption \/ cr.enc, input + c.in, output + c.out, fault)

\* streamsInfo.FolderReader: [err, enc (the hasEncryption it returns), out];
\* in[input] indexes a slice of f.in elements
FolderReader(f, fault) ==
  IF \E k \in 1..Len(f.packed) : f.packed[k] >= FolderIn(f)
    THEN [err |-> "panic", enc |-> FALSE, out |-> -1]
    ELSE FolderReaderFrom(f, 0, Range(f.packed), {}, FALSE, 0, 0, fault)

\* the folder lists a coder that implements CryptoReadCloser
FolderHasCrypto(f) == \E i \in 1..Len(f.coder) : IsCrypto(f.coder[i])

BuildFaults(f) ==
  {NoFault} \cup
  IF faults < MaxFaults
    THEN { ft \in [at : 0..(Len(f.coder) - 1), kind : {"dcomp", "password"}] :
             ft.kind = "password" => IsCrypto(f.coder[ft.at + 1]) }
    ELSE {}

PlainFolder ==
  [coder |-> << [method |-> "copy", in |-> 1, out |-> 1] >>,
   bindPair |-> << >>, packed |-> << 0 >>]

\* AES reading the packed stream, LZMA reading the output of AES
EncFolder ==
  [coder |-> << [method |-> "aes", in |-> 1, out |-> 1],
                [method |-> "lzma", in |-> 1, out |-> 1] >>,
   bindPair |-> << [in |-> 1, out |-> 0] >>, packed |-> << 0 >>]

(***************************************************************************)
(* Reader.init, from the parsed header on: the file index and the pools.   *)
(* A file header is [isEmptyStream, isEmptyFile, size].                    *)
(***************************************************************************)
\* streamsInfo.FileFolderAndSize: the folder of the file-th file with content
RECURSIVE FileFolderFrom(_, _, _, _)
FileFolderFrom(streams, file, k, total) ==
  IF k > Len(streams) THEN Len(streams) - 1
  ELSE IF file < total + streams[k] THEN k - 1
  ELSE FileFolderFrom(streams, file, k + 1, total + streams[k])

FileFolder(streams, file) ==
  IF streams = << >> THEN 0 ELSE FileFolderFrom(streams, file, 1, 0)

HasContent(fh) == ~fh.isEmptyStream /\ ~fh.isEmptyFile

\* a faulty loop: the offset is not reset when the folder changes
RECURSIVE InitFilesNoReset(_, _, _, _, _, _)
InitFilesNoReset(h, i, folder, offset, j, acc) ==
  IF i > Len(h.file) THEN acc
  ELSE LET fh == h.file[i] IN
       IF HasContent(fh)
         THEN LET ff == FileFolder(h.streams, j) IN
              InitFilesNoReset(h, i + 1, ff, offset + fh.size, j + 1,
                               Append(acc, [empty |-> FALSE, folder |-> ff,
                                            offset |-> offset, size |-> fh.size]))
         ELSE InitFilesNoReset(h, i + 1, folder, offset, j,
                               Append(acc, [empty |-> TRUE, folder |-> 0,
                                            offset |-> 0, size |-> 0]))

\* the loop over header.filesInfo.file (folder, offset and j are its locals)
RECURSIVE InitFilesFrom(_, _, _, _, _, _)
InitFilesFrom(h, i, folder, offset, j, acc) ==
  IF i > Len(h.file) THEN acc
  ELSE LET fh == h.file[i] IN
       IF HasContent(fh)
         THEN LET ff == FileFolder(h.streams, j)
                  off == IF ff # folder THEN 0 ELSE offset
              IN InitFilesFrom(h, i + 1, ff, off + fh.size, j + 1,
                               Append(acc, [empty |-> FALSE, folder |-> ff,
                                            offset |-> off, size |-> fh.size]))
         ELSE InitFilesFrom(h, i + 1, folder, offset, j,
                            Append(acc, [empty |-> TRUE, folder |-> 0,
                                         offset |-> 0, size |-> 0]))

InitFiles(h) == InitFilesFrom(h, 1, 0, 0, 0, << >>)

FilesPerStream(files, i) ==
  Cardinality({ k \in 1..Len(files) : ~files[k].empty /\ files[k].folder = i })

\* a faulty choice: no folder gets an LRU pool
AlwaysNoop(files, i) == "noop"

PoolFor(files, i) == IF FilesPerStream(files, i) > 1 THEN "lru" ELSE "noop"

InitPools(h, files) == [i \in 1..Len(h.folder) |-> PoolFor(files, i - 1)]

\* folder.unpackSize of folder i of a well-formed archive: its files' sizes add up to it
FolderSize(files, i) ==
  SumSeq([k \in 1..Len(files) |->
            IF ~files[k].empty /\ files[k].folder = i THEN files[k].size ELSE 0])

(***************************************************************************)
(* Idle values of the three groups of variables.                           *)
(***************************************************************************)
NoHdr == [file |-> << >>, streams |-> << >>, folder |-> << >>, encoded |-> << >>]
NoErr == [op |-> "none", kind |-> "nil", readError |-> FALSE, encrypted |-> FALSE, folderEnc |-> FALSE]
NoGet == [called |-> FALSE]
NoPut == [called |-> FALSE]

IdleMain ==
  /\ hdr = NoHdr /\ opened = "new" /\ File = << >> /\ poolKind = << >>
  /\ builds = << >> /\ readers = << >> /\ lastErr = NoErr /\ volClosed = FALSE
  /\ disc = << >> /\ hung = {}

IdlePool ==
  /\ cache = << >> /\ blocked = << >> /\ pipes = << >> /\ faults = 0
  /\ lastGet = NoGet /\ lastPut = NoPut /\ held = {}

IdleSeek == seekSt = [pos |-> 0, size |-> 0, h |-> Zero32, from |-> 0, last |-> [called |-> FALSE]]

IdleVol == volSt = [pc |-> "idle", multi |-> FALSE]

IdleSig == sigSt = [pc |-> "idle"]
IdleFr == frSt = [pc |-> "idle"]
IdleAes == aesSt = [pc |-> "idle"]
IdleReg == regSt = [pc |-> "idle"]
IdleList == listSt = [pc |-> "idle"]
IdleSi == siSt = [pc |-> "idle"]
IdleGo == goSt = [pc |-> "idle"]
IdleKey == keySt = [pc |-> "idle"]
IdleDelta == deltaSt = [pc |-> "idle"]
IdleFi == fiSt = [pc |-> "idle"]
IdleBra == braSt = [pc |-> "idle"]
IdleLate == IdleGo /\ IdleKey /\ IdleDelta /\ IdleFi /\ IdleBra
IdleUnits == IdleSig /\ IdleFr /\ IdleAes /\ IdleReg /\ IdleList /\ IdleSi /\ IdleLate

lateVars == << goSt, keySt, deltaSt, fiSt, braSt >>
unitVars == << sigSt, frSt, aesSt, regSt, listSt, siSt, lateVars >>
baseVars == << hdr, opened, File, poolKind, builds, readers, lastErr, volClosed, disc, hung,
              cache, blocked, pipes, faults, lastGet, lastPut, held, seekSt, volSt >>
restVars == << baseVars, lateVars >>
earlyVars == << baseVars, sigSt, frSt, aesSt, regSt, listSt, siSt >>
mainVars == << hdr, opened, File, poolKind, builds, readers, lastErr, volClosed, disc, hung >>
poolVars == << cache, blocked, pipes, faults, lastGet, lastPut, held >>

(***************************************************************************)
(* The archives of the main specification.  Archive A: a solid encrypted   *)
(* folder of two files and a plain folder of one file, with an empty file  *)
(* between them; archive B: a plain solid folder of two files around a     *)
(* directory entry.  Either may carry its header in an encoded (and        *)
(* encrypted) header folder.                                               *)
(***************************************************************************)
Content(n) == [isEmptyStream |-> FALSE, isEmptyFile |-> FALSE, size |-> n]
EmptyFile == [isEmptyStream |-> TRUE, isEmptyFile |-> TRUE, size |-> 0]
EmptyStream == [isEmptyStream |-> TRUE, isEmptyFile |-> FALSE, size |-> 0]

ArchiveA ==
  [file |-> << Content(1), EmptyFile, Content(1), Content(1) >>,
   streams |-> << 2, 1 >>, folder |-> << EncFolder, PlainFolder >>]

ArchiveB ==
  [file |-> << Content(2), EmptyStream, Content(1) >>,
   streams |-> << 2 >>, folder |-> << PlainFolder >>]

MainHeaders ==
  { [file |-> a.file, streams |-> a.streams, folder |-> a.folder, encoded |-> e] :
      a \in {ArchiveA, ArchiveB}, e \in { << >>, << EncFolder >> } }

Init ==
  /\ hdr \in MainHeaders
  /\ opened = "new" /\ File = << >> /\ poolKind = << >>
  /\ builds = << >> /\ readers = << >> /\ lastErr = NoErr /\ volClosed = FALSE
  /\ disc = << >> /\ hung = {}
  /\ IdlePool /\ IdleSeek /\ IdleVol /\ IdleUnits

\* a ReadError value
ReadError(op, kind, enc, f) ==
  [op |-> op, kind |-> kind, readError |-> TRUE, encrypted |-> enc,
   folderEnc |-> FolderHasCrypto(f)]

PlainError(op, kind) ==
  [op |-> op, kind |-> kind, readError |-> FALSE, encrypted |-> FALSE, folderEnc |-> FALSE]

Spend(fault) == IF fault = NoFault THEN faults ELSE faults + 1

\* the decoded header is kept; the encoded-header folder is not
InitOk ==
  LET files == InitFiles(hdr) IN
  /\ opened' = "ok"
  /\ File' = files
  /\ poolKind' = InitPools(hdr, files)
  /\ cache' = [i \in 1..Len(hdr.folder) |-> << >>]
  /\ blocked' = [i \in 1..Len(hdr.folder) |-> FALSE]
  /\ builds' = [i \in 1..Len(hdr.folder) |-> 0]
  /\ disc' = [i \in 1..Len(hdr.folder) |-> TRUE]
  /\ hdr' = [hdr EXCEPT !.encoded = << >>]

InitFailed(e) ==
  /\ opened' = "failed" /\ lastErr' = e
  /\ UNCHANGED << hdr, File, poolKind, cache, blocked, builds, disc >>

\* Reader.init: an encoded header is decoded through its folder first
ReaderInit ==
  /\ opened = "new"
  /\ IF hdr.encoded = << >>
       THEN InitOk /\ lastErr' = NoErr /\ UNCHANGED faults
       ELSE \E fault \in BuildFaults(hdr.encoded[1]), readFails \in BOOLEAN :
              LET f == hdr.encoded[1]
                  fr == FolderReader(f, fault)
              IN
              /\ readFails => (fault = NoFault /\ faults < MaxFaults)
              /\ faults' = IF readFails THEN faults + 1 ELSE Spend(fault)
              /\ IF fr.err # "nil"
                   THEN InitFailed(ReadError("init", fr.err, fr.enc, f))
                 ELSE IF readFails
                   THEN InitFailed(ReadError("init", "errDecode", fr.enc, f))
                 ELSE InitOk /\ lastErr' = NoErr
  /\ UNCHANGED << pipes, readers, volClosed, hung, lastGet, lastPut, held, seekSt, volSt, unitVars >>

(***************************************************************************)
(* File.Open.                                                              *)
(***************************************************************************)
NewPipe(folder, enc) ==
  [folder |-> folder, pos |-> 0, size |-> FolderSize(File, folder), closes |-> 0, enc |-> enc]

NewReader(i, rc) ==
  [file |-> i, rc |-> rc, n |-> File[i].size, got |-> << >>, eof |-> FALSE,
   closed |-> FALSE, released |-> 0, hung |-> FALSE]

\* rc.Close() on pipeline id, failing or not
ClosePipe(ps, id) == [ps EXCEPT ![id].closes = @ + 1]

ClosePipes(ps, ids) ==
  [k \in 1..Len(ps) |-> IF k \in ids THEN [ps[k] EXCEPT !.closes = @ + 1] ELSE ps[k]]

\* the caller keeps to archive order and closes before the next open
InOrder(i) ==
  \A r \in 1..Len(readers) :
    File[readers[r].file].folder = File[i].folder =>
      /\ readers[r].file < i
      /\ readers[r].closed /\ ~readers[r].hung

SeekFails(pos, target) ==
  {-1} \cup IF faults < MaxFaults THEN 0..(target - pos - 1) ELSE {}

\* pool[f.folder].Get(f.offset)
GetFor(i) ==
  IF poolKind[File[i].folder + 1] = "lru"
    THEN PoolGet(cache[File[i].folder + 1], File[i].offset)
    ELSE NoopGet(cache[File[i].folder + 1], File[i].offset)

\* the rest of File.Open once it holds pipeline id: Seek to f.offset
OpenSeek(i, id, ps, fail) ==
  LET sk == Seek(ps[id].pos, ps[id].size, File[i].offset, SeekStart, fail)
      fo == File[i].folder + 1
  IN
  /\ pipes' = [ps EXCEPT ![id].pos = sk.pos]
  /\ faults' = IF fail >= 0 /\ sk.err = "errSeeking" THEN faults + 1 ELSE faults
  /\ IF sk.err # "nil"
       THEN /\ lastErr' = ReadError("open", sk.err, ps[id].enc, hdr.folder[fo])
            /\ disc' = [disc EXCEPT ![fo] = FALSE]
            /\ UNCHANGED readers
       ELSE /\ readers' = Append(readers, NewReader(i, id))
            /\ disc' = [disc EXCEPT ![fo] = @ /\ InOrder(i)]
            /\ lastErr' = NoErr

FileOpen ==
  \E i \in 1..Len(File) :
    LET f == File[i]
        fo == f.folder + 1
    IN
    /\ opened = "ok" /\ ~volClosed /\ ~f.empty
    /\ Len(readers) < MaxOpens
    /\ UNCHANGED << hdr, opened, File, poolKind, blocked, volClosed, lastGet, lastPut,
                    held, seekSt, volSt, unitVars >>
    /\ IF poolKind[fo] = "lru" /\ blocked[fo]
         THEN /\ hung' = hung \cup { << "open", i >> }
              /\ lastErr' = NoErr
              /\ UNCHANGED << cache, pipes, builds, readers, faults, disc >>
         ELSE LET g == GetFor(i) IN
              /\ cache' = [cache EXCEPT ![fo] = g.cache]
              /\ UNCHANGED hung
              /\ IF g.rc # 0
                   THEN /\ UNCHANGED builds
                        /\ \E fail \in SeekFails(pipes[g.rc].pos, f.offset) :
                              OpenSeek(i, g.rc, ClosePipes(pipes, g.closed), fail)
                   ELSE /\ builds' = [builds EXCEPT ![fo] = @ + 1]
                        /\ \E fault \in BuildFaults(hdr.folder[fo]) :
                              LET fr == FolderReader(hdr.folder[fo], fault) IN
                              IF fr.err # "nil"
                                THEN /\ lastErr' = ReadError("open", fr.err, fr.enc, hdr.folder[fo])
                                     /\ faults' = Spend(fault)
                                     /\ disc' = [disc EXCEPT ![fo] = FALSE]
                                     /\ UNCHANGED << pipes, readers >>
                                ELSE \E fail \in SeekFails(0, f.offset) :
                                       OpenSeek(i, Len(pipes) + 1,
                                                Append(pipes, NewPipe(f.folder, fr.enc)), fail)

(***************************************************************************)
(* fileReader.Read with len(p) = k.                                        *)
(***************************************************************************)
Positions(from, n) == [j \in 1..n |-> from + j - 1]

FileReaderRead ==
  \E r \in 1..Len(readers), k \in 1..MaxRead, readFails \in BOOLEAN :
    LET fr == readers[r]
        p == pipes[fr.rc]
        want == Min2(k, fr.n)
        n == Min2(want, p.size - p.pos)
    IN
    /\ opened = "ok" /\ ~volClosed /\ fr.rc # 0 /\ ~fr.hung /\ ~fr.eof
    /\ UNCHANGED << hdr, opened, File, poolKind, cache, blocked, builds, volClosed, disc,
                    hung, lastGet, lastPut, held, seekSt, volSt, unitVars >>
    /\ IF fr.n <= 0
         \* return 0, io.EOF
         THEN /\ ~readFails
              /\ lastErr' = NoErr
              /\ UNCHANGED << pipes, readers, faults >>
       ELSE IF readFails
         THEN /\ faults < MaxFaults
              /\ faults' = faults + 1
              /\ lastErr' = ReadError("read", "errDecode", p.enc, hdr.folder[p.folder + 1])
              /\ UNCHANGED << pipes, readers >>
       \* n = 0: the pipeline has ended and its io.EOF is passed on
       ELSE /\ pipes' = [pipes EXCEPT ![fr.rc].pos = @ + n]
            /\ readers' = [readers EXCEPT ![r].n = @ - n,
                                           ![r].got = @ \o Positions(p.pos, n),
                                           ![r].eof = (n = 0)]
            /\ lastErr' = NoErr
            /\ UNCHANGED faults

(***************************************************************************)
(* fileReader.Close.                                                       *)
(***************************************************************************)
CloseOutcomes == {FALSE} \cup IF faults < MaxFaults THEN {TRUE} ELSE {}

\* Close ends and returns err; on success fr.rc = nil, and the bytes the reader
\* delivered are not tracked any further
CloseReturns(r, err, didRelease) ==
  readers' = [readers EXCEPT ![r] =
    [file |-> @.file,
     rc |-> IF err = "nil" THEN 0 ELSE @.rc,
     n |-> IF err = "nil" THEN 0 ELSE @.n,
     got |-> IF err = "nil" THEN << >> ELSE @.got,
     eof |-> IF err = "nil" THEN FALSE ELSE @.eof,
     closed |-> TRUE,
     released |-> IF didRelease THEN @.released + 1 ELSE @.released,
     hung |-> FALSE]]

FileReaderClose ==
  \E r \in 1..Len(readers), closeFails \in CloseOutcomes :
    LET fr == readers[r]
        fo == File[fr.file].folder + 1
    IN
    /\ opened = "ok" /\ ~fr.hung
    /\ UNCHANGED << hdr, opened, File, poolKind, builds, volClosed, disc, lastGet,
                    lastPut, held, seekSt, volSt, unitVars >>
    /\ IF fr.rc = 0
         THEN /\ ~closeFails
              /\ CloseReturns(r, "nil", FALSE)
              /\ lastErr' = PlainError("reclose", "nil")
              /\ UNCHANGED << cache, blocked, pipes, faults, hung >>
         ELSE LET p == pipes[fr.rc]
                  sk == Seek(p.pos, p.size, 0, SeekCurrent, -1)
              IN
              IF sk.err # "nil"
                THEN /\ ~closeFails
                     /\ CloseReturns(r, sk.err, FALSE)
                     /\ lastErr' = PlainError("close", sk.err)
                     /\ UNCHANGED << cache, blocked, pipes, faults, hung >>
              ELSE IF sk.n = p.size \/ poolKind[fo] = "noop"
                \* EOF reached: rc.Close(); a no-op pool's Put is rc.Close() too
                THEN /\ pipes' = ClosePipe(pipes, fr.rc)
                     /\ CloseReturns(r, IF closeFails THEN "errClose" ELSE "nil", TRUE)
                     /\ faults' = IF closeFails THEN faults + 1 ELSE faults
                     /\ lastErr' = IF closeFails THEN PlainError("close", "errClose") ELSE NoErr
                     /\ UNCHANGED << cache, blocked, hung >>
              ELSE IF blocked[fo]
                \* the pool mutex is never released
                THEN /\ ~closeFails
                     /\ readers' = [readers EXCEPT ![r].hung = TRUE]
                     /\ hung' = hung \cup { << "close", r >> }
                     /\ lastErr' = NoErr
                     /\ UNCHANGED << cache, blocked, pipes, faults >>
              ELSE LET put == PoolPut(cache[fo], sk.n, fr.rc, closeFails) IN
                   /\ closeFails => put.evicted # 0
                   /\ cache' = [cache EXCEPT ![fo] = put.cache]
                   /\ pipes' = IF put.evicted # 0 THEN ClosePipe(pipes, put.evicted) ELSE pipes
                   /\ faults' = IF closeFails THEN faults + 1 ELSE faults
                   /\ blocked' = [blocked EXCEPT ![fo] = put.blocks]
                   /\ lastErr' = NoErr
                   /\ IF put.blocks
                        THEN /\ readers' = [readers EXCEPT ![r].hung = TRUE,
                                                           ![r].released = @ + 1]
                             /\ hung' = hung \cup { << "close", r >> }
                        ELSE /\ CloseReturns(r, put.err, TRUE)
                             /\ UNCHANGED hung

(***************************************************************************)
(* ReadCloser.Close: closes the volume files, and nothing else.            *)
(***************************************************************************)
ReadCloserClose ==
  /\ opened = "ok" /\ ~volClosed
  /\ volClosed' = TRUE
  /\ lastErr' = NoErr
  /\ UNCHANGED << hdr, opened, File, poolKind, cache, blocked, pipes, builds, readers,
                  faults, disc, hung, lastGet, lastPut, held, seekSt, volSt, unitVars >>

Next == ReaderInit \/ FileOpen \/ FileReaderRead \/ FileReaderClose \/ ReadCloserClose

Spec == Init /\ [][Next]_vars

(***************************************************************************)
(* Properties of the main specification.                                   *)
(***************************************************************************)
ReadersOf(fo) == { r \in 1..Len(readers) : File[readers[r].file].folder = fo - 1 }

\* C1: for a folder of more than one file with content whose files are opened in
\* archive order, each reader closed before the next Open, FolderReader is called
\* exactly once: every Open after the first takes its pipeline from the pool.
C1_FolderBuiltOnce ==
  opened = "ok" =>
    \A fo \in 1..Len(hdr.folder) :
      (hdr.streams[fo] > 1 /\ disc[fo]) =>
        builds[fo] = IF ReadersOf(fo) = {} THEN 0 ELSE 1

\* the two files of a solid folder were opened in order, the first closed before
\* the second Open, and both readers came from one build
C1_Witness ==
  /\ opened = "ok"
  /\ \E fo \in 1..Len(hdr.folder) :
        /\ hdr.streams[fo] > 1 /\ disc[fo] /\ builds[fo] = 1
        /\ Cardinality(ReadersOf(fo)) = 2
        /\ \E r \in ReadersOf(fo) : readers[r].rc # 0 /\ File[readers[r].file].offset > 0

C7_NoOpenPipelinePooled ==
  (volClosed /\ \A r \in 1..Len(readers) : readers[r].rc = 0 /\ ~readers[r].hung) =>
    \A fo \in 1..Len(cache) :
      \A k \in 1..Len(cache[fo]) : pipes[cache[fo][k].rc].closes >= 1

\* C8 as stated: however often Close is called on a file reader, its pipeline is
\* put into the pool or closed at most once.
C8_ReleasedAtMostOnce ==
  \A r \in 1..Len(readers) : readers[r].released <= 1

\* C9 as stated: a failure to build a folder's pipeline and a failure reading from
\* it reach the caller as a ReadError whose Encrypted field tells whether the
\* folder has an encryption-bearing coder.
C9_EncryptedFlag ==
  (lastErr.op \in {"init", "open", "read"} /\ lastErr.kind # "nil") =>
    /\ lastErr.readError
    /\ lastErr.encrypted = lastErr.folderEnc

\* C21: File.Open never fails with the seek-backwards error: every pipeline stored
\* in a pool is stored under its current position, so the pipeline Get(f.offset)
\* hands out (key <= f.offset) or a newly built one (position 0) is at or before
\* f.offset when File.Open seeks it.
C21_NoSeekBackwards ==
  /\ lastErr.kind # "errSeekBackwards"
  /\ \A fo \in 1..Len(cache) :
       \A k \in 1..Len(cache[fo]) :
         /\ pipes[cache[fo][k].rc].pos = cache[fo][k].key
         /\ pipes[cache[fo][k].rc].folder = fo - 1

\* a file that does not start its folder was opened on a pipeline taken from the
\* pool and moved forward to f.offset, while another pipeline is stored at a
\* position beyond the start of the folder
C21_Witness ==
  \E r \in 1..Len(readers) :
    LET fo == File[readers[r].file].folder + 1 IN
    /\ readers[r].rc # 0 /\ readers[r].got = << >>
    /\ File[readers[r].file].offset > 0
    /\ pipes[readers[r].rc].pos = File[readers[r].file].offset
    /\ builds[fo] < Cardinality(ReadersOf(fo))
    /\ lastErr = NoErr

(***************************************************************************)
(* The header harness: Reader.init on every well-formed header of up to    *)
(* MaxFiles files in up to MaxFolders folders, then Open and Close (no     *)
(* failures injected).                                                     *)
(***************************************************************************)
InitFileSeqs ==
  UNION { [1..n -> {Content(1), EmptyFile, EmptyStream}] : n \in 0..MaxFiles }

InitStreamSeqs == UNION { [1..n -> 0..MaxFiles] : n \in 0..MaxFolders }

ContentFiles(fs) == Cardinality({ k \in 1..Len(fs) : HasContent(fs[k]) })

\* the substream counts account for every file with content
InitHeaders ==
  { h \in { [file |-> fs, streams |-> st,
             folder |-> [k \in 1..Len(st) |-> PlainFolder], encoded |-> << >>] :
             fs \in InitFileSeqs, st \in InitStreamSeqs } :
      SumSeq(h.streams) = ContentFiles(h.file) }

HeaderInit ==
  /\ hdr \in InitHeaders
  /\ opened = "new" /\ File = << >> /\ poolKind = << >>
  /\ builds = << >> /\ readers = << >> /\ lastErr = NoErr /\ volClosed = FALSE
  /\ disc = << >> /\ hung = {}
  /\ cache = << >> /\ blocked = << >> /\ pipes = << >> /\ faults = MaxFaults
  /\ lastGet = NoGet /\ lastPut = NoPut /\ held = {}
  /\ IdleSeek /\ IdleVol /\ IdleUnits

HeaderNext == ReaderInit \/ FileOpen \/ FileReaderClose

SpecInit == HeaderInit /\ [][HeaderNext]_vars

\* C6: after a successful open, folder i owns an LRU pool exactly when more than
\* one file with content is assigned to it; every other folder owns a no-op pool:
\* nothing is ever stored in it, every Open of its file builds a pipeline (Get
\* missed), and every pipeline handed back by Close has been closed (Put closed it).
C6_PoolKinds ==
  opened = "ok" =>
    /\ Len(poolKind) = Len(hdr.streams)
    /\ \A fo \in 1..Len(hdr.streams) :
         /\ poolKind[fo] = "lru" <=> hdr.streams[fo] > 1
         /\ hdr.streams[fo] <= 1 =>
              /\ poolKind[fo] = "noop" /\ cache[fo] = << >>
              /\ builds[fo] = Cardinality(ReadersOf(fo))
              /\ \A id \in 1..Len(pipes) :
                   pipes[id].folder = fo - 1 =>
                     \/ pipes[id].closes = 1
                     \/ pipes[id].closes = 0 /\ \E r \in ReadersOf(fo) : readers[r].rc = id

\* an archive with a solid folder and a one-file folder, the file of the one-file
\* folder opened and closed twice: two builds, the first pipeline closed by Put
C6_Witness ==
  /\ opened = "ok"
  /\ \E fo \in 1..Len(hdr.streams), so \in 1..Len(hdr.streams) :
        /\ hdr.streams[so] > 1 /\ poolKind[so] = "lru"
        /\ hdr.streams[fo] = 1 /\ poolKind[fo] = "noop" /\ builds[fo] = 2
        /\ \E id \in 1..Len(pipes) : pipes[id].folder = fo - 1 /\ pipes[id].closes = 1

(***************************************************************************)
(* The index harness: Reader.init on every well-formed header of up to     *)
(* MaxFiles files of 1..MaxFileSize bytes in up to MaxFolders folders.     *)
(***************************************************************************)
IndexFileSeqs ==
  UNION { [1..n -> { Content(z) : z \in 1..MaxFileSize } \cup {EmptyFile, EmptyStream}] :
            n \in 0..MaxFiles }

\* the substream counts account for every file with content
IndexInit ==
  /\ \E fs \in IndexFileSeqs, st \in InitStreamSeqs :
       /\ SumSeq(st) = ContentFiles(fs)
       /\ hdr = [file |-> fs, streams |-> st,
                 folder |-> [k \in 1..Len(st) |-> PlainFolder], encoded |-> << >>]
  /\ opened = "new" /\ File = << >> /\ poolKind = << >>
  /\ builds = << >> /\ readers = << >> /\ lastErr = NoErr /\ volClosed = FALSE
  /\ disc = << >> /\ hung = {}
  /\ IdlePool /\ IdleSeek /\ IdleVol /\ IdleUnits

SpecIndex == IndexInit /\ [][ReaderInit]_vars

\* C13: after a successful open, the offset of every file with content is the sum
\* of the uncompressed sizes of the files with content that precede it in the
\* archive and belong to the same folder (so 0 for the first file of a folder).
C13_FileOffsets ==
  opened = "ok" =>
    /\ Len(File) = Len(hdr.file)
    /\ \A k \in 1..Len(File) :
         HasContent(hdr.file[k]) =>
           File[k].offset =
             SumSeq([i \in 1..(k - 1) |->
                       IF HasContent(hdr.file[i]) /\ File[i].folder = File[k].folder
                         THEN hdr.file[i].size ELSE 0])

\* a second file of a folder at a positive offset, and after it the first file of
\* the next folder back at offset 0
C13_Witness ==
  /\ opened = "ok"
  /\ \E a \in 1..Len(File), b \in 1..Len(File) :
       /\ a < b /\ ~File[a].empty /\ ~File[b].empty
       /\ File[a].offset > 0 /\ File[b].folder # File[a].folder /\ File[b].offset = 0

(***************************************************************************)
(* The pool harness: one pool built by NewPool, a client that builds       *)
(* pipelines and calls Get and Put with every offset.                      *)
(***************************************************************************)
PoolInit ==
  /\ IdleMain /\ IdleSeek /\ IdleVol /\ IdleUnits
  /\ cache = << << >> >> /\ blocked = << FALSE >> /\ pipes = << >> /\ faults = 0
  /\ lastGet = NoGet /\ lastPut = NoPut /\ held = {}

\* the client builds a pipeline
PoolNewPipe ==
  /\ Len(pipes) < MaxPoolPipes
  /\ pipes' = Append(pipes, [folder |-> 0, pos |-> 0, size |-> MaxPoolOff,
                             closes |-> 0, enc |-> FALSE])
  /\ held' = held \cup {Len(pipes) + 1}
  /\ lastGet' = NoGet /\ lastPut' = NoPut
  /\ UNCHANGED << mainVars, cache, blocked, faults, seekSt, volSt, unitVars >>

\* p.Get(offset); a call on a pool whose mutex is never released does not return
PoolGetCall ==
  \E offset \in 0..MaxPoolOff :
    LET g == PoolGet(cache[1], offset) IN
    /\ ~blocked[1]
    /\ cache' = << g.cache >>
    /\ pipes' = ClosePipes(pipes, g.closed)
    /\ held' = IF g.ok THEN held \cup {g.rc} ELSE held
    /\ lastGet' = [called |-> TRUE, offset |-> offset, before |-> cache[1],
                   pipes |-> pipes, rc |-> g.rc, ok |-> g.ok]
    /\ lastPut' = NoPut
    /\ UNCHANGED << mainVars, blocked, faults, seekSt, volSt, unitVars >>

\* p.Put(offset, rc) with a pipeline the client holds
PoolPutCall ==
  \E offset \in 0..MaxPoolOff, rc \in held, closeFails \in CloseOutcomes :
    LET put == PoolPut(cache[1], offset, rc, closeFails) IN
    /\ ~blocked[1]
    /\ closeFails => put.evicted # 0
    /\ cache' = << put.cache >>
    /\ pipes' = IF put.evicted # 0 THEN ClosePipe(pipes, put.evicted) ELSE pipes
    /\ held' = held \ {rc}
    /\ faults' = IF closeFails THEN faults + 1 ELSE faults
    /\ blocked' = << put.blocks >>
    /\ lastPut' = [called |-> TRUE, offset |-> offset, rc |-> rc, before |-> cache[1],
                   ok |-> put.ok, evicted |-> put.evicted, closeFailed |-> closeFails,
                   returned |-> ~put.blocks, err |-> put.err]
    /\ lastGet' = NoGet
    /\ UNCHANGED << mainVars, seekSt, volSt, unitVars >>

PoolNext == PoolNewPipe \/ PoolGetCall \/ PoolPutCall

SpecPool == PoolInit /\ [][PoolNext]_vars

\* C4: Get(offset) returns the pipeline stored at offset if there is one, else the
\* one stored at the greatest key below offset, else nothing; the pipeline it
\* returns leaves the pool and is not closed, and every other stored pipeline
\* stays in the pool as it was.
C4_GetClosest ==
  lastGet.called =>
    LET L == lastGet
        keys == Range(LruKeys(L.before))
        lower == { k \in keys : k < L.offset }
        want == IF L.offset \in keys THEN L.offset
                ELSE IF lower # {} THEN CHOOSE k \in lower : \A m \in lower : m <= k
                ELSE -1
    IN
    /\ pipes = L.pipes
    /\ IF want = -1
         THEN ~L.ok /\ L.rc = 0 /\ cache[1] = L.before
         ELSE /\ L.ok /\ L.rc \in held
              /\ [key |-> want, rc |-> L.rc] \in Range(L.before)
              /\ Range(cache[1]) = Range(L.before) \ { [key |-> want, rc |-> L.rc] }
              /\ Len(cache[1]) = Len(L.before) - 1

\* Get picked the greater of two stored keys that are both below the offset
C4_Witness ==
  /\ lastGet.called /\ lastGet.ok
  /\ Len(lastGet.before) = 2
  /\ \A k \in Range(LruKeys(lastGet.before)) : k < lastGet.offset
  /\ Len(cache[1]) = 1 /\ pipes[lastGet.rc].closes = 0

\* C5 as stated: a pool never holds more than NumCPU pipelines; a Put over
\* capacity removes and closes the least recently used one, and when that Close
\* fails the error comes back from a Put call: the Put that evicted returns.
C5_EvictionErrorReturned ==
  /\ Len(cache[1]) <= NumCPU
  /\ lastPut.called =>
       /\ lastPut.evicted # 0 =>
            /\ Len(lastPut.before) = NumCPU
            /\ lastPut.evicted = lastPut.before[1].rc
            /\ pipes[lastPut.evicted].closes = 1
       /\ lastPut.closeFailed => lastPut.returned

(***************************************************************************)
(* The volume harness: openReader(fs, name) against a file system whose    *)
(* Open and Stat calls succeed or fail in every way.  A part is named by   *)
(* its number; log is the calls made on the file system, in order.         *)
(***************************************************************************)
VolInit ==
  /\ IdleMain /\ IdlePool /\ IdleSeek /\ IdleUnits
  /\ \E multi \in BOOLEAN :
       volSt = [pc |-> "open", multi |-> multi, i |-> 1, log |-> << >>, files |-> << >>,
                sr |-> << >>, closes |-> [k \in 1..MaxParts |-> 0],
                result |-> "none", out |-> << >>, size |-> 0]

\* a faulty close loop: the part opened last is left out
PartsBefore(files) == SubSeq(files, 1, Len(files) - 1)

\* for _, file := range files
PartsToClose(files) == files

CloseParts(closes, files) ==
  [k \in 1..MaxParts |-> IF k \in Range(files) THEN closes[k] + 1 ELSE closes[k]]

VolReturn(st, result, out, size) ==
  [st EXCEPT !.pc = "done", !.result = result, !.out = out, !.size = size]

\* fs.Open of part i: the first part, or the next one of the loop
OrOpen ==
  \E outcome \in {"ok", "notexist", "perm"} :
    LET st == [volSt EXCEPT !.log = Append(@, << "open", volSt.i, outcome >>)] IN
    /\ volSt.pc = "open"
    /\ outcome = "ok" => volSt.i <= MaxParts
    /\ volSt' =
         IF outcome = "ok"
           THEN [st EXCEPT !.pc = "stat", !.files = Append(@, volSt.i)]
         ELSE IF volSt.i > 1 /\ outcome = "notexist"
           \* break: mr.Size() is the sum of the parts' sizes
           THEN VolReturn(st, "ok", st.files, SumSeq(st.sr))
         ELSE VolReturn([st EXCEPT !.closes = CloseParts(@, IF volSt.i = 1 THEN << >>
                                                             ELSE PartsToClose(st.files))],
                        "errOpen", << >>, 0)
    /\ UNCHANGED << mainVars, poolVars, seekSt, unitVars >>

\* f.Stat() of the part just opened
OrStat ==
  \E ok \in BOOLEAN, sz \in 0..MaxPartSize :
    LET st == [volSt EXCEPT !.log = Append(@, << "stat", volSt.i, IF ok THEN "ok" ELSE "fail" >>)]
    IN
    /\ volSt.pc = "stat"
    /\ ~ok => sz = 0
    /\ volSt' =
         IF ~ok
           THEN VolReturn([st EXCEPT !.closes = CloseParts(@, PartsToClose(st.files))],
                          "errStat", << >>, 0)
         ELSE IF volSt.i = 1 /\ ~volSt.multi
           THEN VolReturn([st EXCEPT !.sr = << sz >>], "ok", st.files, sz)
         ELSE [st EXCEPT !.pc = "open", !.i = @ + 1, !.sr = Append(@, sz)]
    /\ UNCHANGED << mainVars, poolVars, seekSt, unitVars >>

VolNext == OrOpen \/ OrStat

SpecOpenReader == VolInit /\ [][VolNext]_vars

VolFailed(log) ==
  \E k \in 1..Len(log) :
    \/ log[k][1] = "open" /\ log[k][3] = "perm"
    \/ log[k][1] = "stat" /\ log[k][3] = "fail"
    \/ log[k] = << "open", 1, "notexist" >>

VolOpened(log) == { log[k][2] : k \in { j \in 1..Len(log) : log[j][1] = "open" /\ log[j][3] = "ok" } }

\* C10: on a name ending in .001 the parts are opened in order .001, .002, ...
\* until Open reports not-exist; when an Open fails otherwise or a Stat fails,
\* every part opened so far has been closed exactly once and an error naming the
\* failed call is returned with no files; on success no part has been closed and
\* the parts are returned in opening order.
C10_OpenReader ==
  (volSt.pc # "idle" /\ volSt.multi) =>
    LET L == volSt
        asked == { k \in 1..Len(L.log) : L.log[k][1] = "open" }
    IN
    /\ \A k \in asked : L.log[k][2] = Cardinality({ j \in asked : j <= k })
    /\ L.pc = "done" =>
         /\ L.result # "ok" <=> VolFailed(L.log)
         /\ L.result # "ok" =>
              /\ L.out = << >>
              /\ \A k \in 1..MaxParts : L.closes[k] = IF k \in VolOpened(L.log) THEN 1 ELSE 0
              /\ L.result = IF L.log[Len(L.log)][1] = "open" THEN "errOpen" ELSE "errStat"
         /\ L.result = "ok" =>
              /\ L.log[Len(L.log)] = << "open", Len(L.out) + 1, "notexist" >>
              /\ L.out = [k \in 1..Len(L.out) |-> k]
              /\ Range(L.out) = VolOpened(L.log)
              /\ \A k \in 1..MaxParts : L.closes[k] = 0
              /\ L.size = SumSeq(L.sr) /\ Len(L.sr) = Len(L.out)
    /\ L.pc # "done" => \A k \in 1..MaxParts : L.closes[k] = 0

\* the Stat of the second part failed after both parts were opened: both closed
C10_Witness ==
  /\ volSt.pc = "done" /\ volSt.multi /\ volSt.result = "errStat"
  /\ Len(volSt.files) = 2 /\ volSt.closes[1] = 1 /\ volSt.closes[2] = 1

(***************************************************************************)
(* The signature harness: the start of Reader.init (findSignature and the  *)
(* loop over the recorded offsets) on a source given by its size, the      *)
(* offsets at which the six signature bytes occur, and which of those are  *)
(* followed by a StartHeader whose CRC matches.                            *)
(***************************************************************************)
RECURSIVE SortAsc(_)
SortAsc(ks) ==
  IF ks = {} THEN << >>
  ELSE LET m == CHOOSE x \in ks : \A y \in ks : x <= y IN
       << m >> \o SortAsc(ks \ {m})

\* a faulty buffer: no room for a signature that starts at the end of the chunk
ChunkLenShort == chunkSize

\* len(chunk)
ChunkLen == chunkSize + SigLen

\* one pass of the loop over the chunks of findSignature: the offsets recorded
\* so far and whether the function returns after this chunk
ScanChunk(src, offset, offsets) ==
  LET left == src.size - offset
      n == IF left < 0 THEN 0 ELSE Min2(ChunkLen, left)
      hits == SortAsc({ q \in src.sigs : offset <= q /\ q + SigLen <= offset + n })
      found == offsets \o hits
  IN
  IF found # << >> /\ found[1] = 0 THEN [offsets |-> << 0 >>, stop |-> TRUE]
  ELSE [offsets |-> found,
        stop |-> n < ChunkLen \/ offset + chunkSize >= searchLimit]

\* the loop over offsets of Reader.init: [res, off]
RECURSIVE TryOffsets(_, _, _, _)
TryOffsets(src, offsets, i, err) ==
  IF i > Len(offsets) THEN [res |-> err, off |-> offsets[Len(offsets)]]
  ELSE LET off == offsets[i] IN
       IF src.size - off < SigHeaderLen
         THEN [res |-> "errReadSignatureHeader", off |-> off]
       ELSE IF src.size - off < SigHeaderLen + StartHeaderLen
         THEN [res |-> "errReadStartHeader", off |-> off]
       ELSE IF off \in src.good THEN [res |-> "ok", off |-> off]
       ELSE TryOffsets(src, offsets, i + 1, "errChecksum")

InitSignature(src, offsets) ==
  IF offsets = << >> THEN [res |-> "errFormat", off |-> 0]
  ELSE TryOffsets(src, offsets, 1, "ok")

\* the chunk boundaries at both ends of the searched range
BoundaryChunks ==
  { m \in 0..(searchLimit \div chunkSize) :
      m <= MaxEdge \/ m >= searchLimit \div chunkSize - MaxEdge }

\* a valid archive whose signature starts at k, near a chunk boundary
ValidSources ==
  { [size |-> k + SigHeaderLen + StartHeaderLen, sigs |-> {k}, good |-> {k}] :
      k \in { b \in { m * chunkSize + d :
                        m \in BoundaryChunks, d \in (0 - MaxNear)..MaxNear } :
                b >= 0 } }

SigPositions == {0, 1, chunkSize - 1, chunkSize, searchLimit, searchLimit + 1}

SigTails == {SigLen, SigHeaderLen, SigHeaderLen + StartHeaderLen - 1,
             SigHeaderLen + StartHeaderLen}

\* up to MaxSigs signatures, the last one followed by a whole header or by less
CandidateSources ==
  { src \in [size : { q + t : q \in SigPositions, t \in SigTails },
             sigs : { ss \in SUBSET SigPositions : Cardinality(ss) <= MaxSigs },
             good : SUBSET SigPositions] :
      /\ \A a \in src.sigs : a + SigLen <= src.size
      /\ \A a \in src.sigs, b \in src.sigs : a < b => a + SigLen <= b
      /\ \E a \in src.sigs : \E t \in SigTails :
           src.size = a + t /\ \A b \in src.sigs : b <= a
      /\ src.good \subseteq { a \in src.sigs : a + SigHeaderLen + StartHeaderLen <= src.size } }

SigInit ==
  /\ IdleMain /\ IdlePool /\ IdleSeek /\ IdleVol
  /\ IdleFr /\ IdleAes /\ IdleReg /\ IdleList /\ IdleSi /\ IdleLate
  /\ \E src \in ValidSources \cup CandidateSources :
       sigSt = [pc |-> "scan", src |-> src, offset |-> 0, offsets |-> << >>]

\* one chunk of findSignature
SigChunk ==
  /\ sigSt.pc = "scan"
  /\ LET r == ScanChunk(sigSt.src, sigSt.offset, sigSt.offsets) IN
     sigSt' = [sigSt EXCEPT !.offsets = r.offsets,
                            !.offset = IF r.stop THEN @ ELSE @ + chunkSize,
                            !.pc = IF r.stop THEN "found" ELSE "scan"]
  /\ UNCHANGED << restVars, frSt, aesSt, regSt, listSt, siSt >>

\* Reader.init from the return of findSignature to the accepted offset
SigAccept ==
  /\ sigSt.pc = "found"
  /\ LET r == InitSignature(sigSt.src, sigSt.offsets) IN
     sigSt' = [pc |-> "done", src |-> sigSt.src, offsets |-> sigSt.offsets,
               res |-> r.res, off |-> r.off]
  /\ UNCHANGED << restVars, frSt, aesSt, regSt, listSt, siSt >>

SigNext == SigChunk \/ SigAccept

SpecSig == SigInit /\ [][SigNext]_vars

\* C11 as stated: the first recorded offset whose StartHeader CRC matches is
\* accepted; with no recorded offset the open fails with the format error, and
\* with recorded offsets of which none matches it fails with the checksum error.
C11_SignatureOutcome ==
  sigSt.pc = "done" =>
    LET L == sigSt
        matching == { i \in 1..Len(L.offsets) : L.offsets[i] \in L.src.good }
    IN
    IF L.offsets = << >> THEN L.res = "errFormat"
    ELSE IF matching # {}
      THEN L.res = "ok" /\ L.off = L.offsets[CHOOSE i \in matching : \A j \in matching : i <= j]
    ELSE L.res = "errChecksum"

\* C12: a valid archive whose only signature starts at offset k opens, at k, when
\* k <= 1 MiB and fails with the format error when k > 1 MiB, wherever k lies
\* relative to the 4096-byte steps of the scan.
C12_SearchLimit ==
  (sigSt.pc = "done" /\ sigSt.src \in ValidSources) =>
    LET k == CHOOSE q \in sigSt.src.sigs : TRUE IN
    IF k <= 2 ^ 20
      THEN sigSt.res = "ok" /\ sigSt.off = k
      ELSE sigSt.res = "errFormat"

\* an archive whose signature straddles the last chunk boundary below 1 MiB opened
C12_Witness ==
  /\ sigSt.pc = "done" /\ sigSt.src \in ValidSources /\ sigSt.res = "ok"
  /\ sigSt.off < 2 ^ 20 - 4096 /\ sigSt.off + 6 > 2 ^ 20 - 4096
  /\ sigSt.off > 2 ^ 20 - 2 * 4096

(***************************************************************************)
(* The folder harness: readFolder on every coder list, bind-pair list and  *)
(* packed list within the bounds, then FolderReader on the folder it       *)
(* returns.  Every coder's method is registered and no constructor fails.  *)
(***************************************************************************)
SeqsOf(S, n) == [1..n -> S]

\* the inputs without a bind pair, in ascending order
RECURSIVE UnpairedFrom(_, _)
UnpairedFrom(f, i) ==
  IF i >= FolderIn(f) THEN << >>
  ELSE (IF HasInBindPair(f, i) THEN << >> ELSE << i >>) \o UnpairedFrom(f, i + 1)

\* readFolder: the folders it can return for a list of coders
ReadFolders(coders) ==
  LET c0 == [coder |-> coders, bindPair |-> << >>, packed |-> << >>]
      bindPairs == FolderOut(c0) - 1
  IN
  IF bindPairs < 0 \/ FolderIn(c0) < bindPairs THEN {}
  ELSE UNION {
         LET f == [coder |-> coders, bindPair |-> bp, packed |-> << >>] IN
         IF FolderIn(c0) - bindPairs = 1
           THEN { [f EXCEPT !.packed = UnpairedFrom(f, 0)] }
           ELSE { [f EXCEPT !.packed = pk] :
                    pk \in SeqsOf(0..MaxStream, FolderIn(c0) - bindPairs) } :
         bp \in SeqsOf([in : 0..MaxStream, out : 0..MaxStream], bindPairs) }

CoderLists ==
  UNION { SeqsOf([method : {"lzma"}, in : 1..MaxCoderIO, out : 0..MaxCoderIO], n) :
            n \in 1..MaxCoders }

\* folder.unpackSize, with f.size[i] written as the index i of the output
RECURSIVE UnpackSizeFrom(_, _)
UnpackSizeFrom(f, i) ==
  IF i < 0 THEN FolderOut(f) - 1
  ELSE IF ~HasOutBindPair(f, i) THEN i
  ELSE UnpackSizeFrom(f, i - 1)

UnpackSize(f) == IF FolderOut(f) = 0 THEN 0 ELSE UnpackSizeFrom(f, FolderOut(f) - 1)

FrInit ==
  /\ IdleMain /\ IdlePool /\ IdleSeek /\ IdleVol
  /\ IdleSig /\ IdleAes /\ IdleReg /\ IdleList /\ IdleSi /\ IdleLate
  /\ \E cs \in CoderLists : \E f \in ReadFolders(cs) : frSt = [pc |-> "new", f |-> f]

\* streamsInfo.FolderReader on the folder
FrCall ==
  /\ frSt.pc = "new"
  /\ LET r == FolderReader(frSt.f, NoFault) IN
     frSt' = [pc |-> "done", f |-> frSt.f, err |-> r.err, out |-> r.out,
              size |-> IF r.err = "nil" THEN UnpackSize(frSt.f) ELSE -1]
  /\ UNCHANGED << restVars, sigSt, aesSt, regSt, listSt, siSt >>

SpecFolder == FrInit /\ [][FrCall]_vars

\* the input slots of coder i (from 0) and the first coder, in listed order, that
\* declares out # 1 or has an input that is neither packed nor bound to the
\* output of an earlier-listed coder
C14_Slots(f, i) ==
  LET base == SumSeq([k \in 1..i |-> f.coder[k].in]) IN
  base..(base + f.coder[i + 1].in - 1)

C14_InputOk(f, i, j) ==
  \/ j \in Range(f.packed)
  \/ HasInBindPair(f, j) /\ FindInBindPair(f, j).out < i

C14_Offends(f, i) ==
  \/ f.coder[i + 1].out # 1
  \/ \E j \in C14_Slots(f, i) : ~C14_InputOk(f, i, j)

C14_Expected(f) ==
  LET off == { i \in 0..(Len(f.coder) - 1) : C14_Offends(f, i) }
      unbound == { o \in 0..(FolderOut(f) - 1) : ~HasOutBindPair(f, o) }
  IN
  IF off # {}
    THEN LET i == CHOOSE x \in off : \A y \in off : x <= y IN
         [err |-> IF f.coder[i + 1].out # 1 THEN "errMultipleOutputStreams"
                  ELSE "errNoBoundStream", out |-> -1, size |-> -1]
  ELSE IF Cardinality(unbound) # 1
    THEN [err |-> "errNoUnboundStream", out |-> -1, size |-> -1]
  ELSE LET o == CHOOSE x \in unbound : TRUE IN [err |-> "nil", out |-> o, size |-> o]

\* C14 as stated: walking the coders in listed order, FolderReader fails with the
\* multiple-output-streams error at a coder with out # 1, with the no-bound-stream
\* error at a coder with an input that is neither packed nor bound to the output
\* of an earlier-listed coder, with the no-unbound-stream error unless exactly one
\* output is not the out side of a bind pair, and otherwise returns that output
\* with the folder's unpack size.
C14_FolderReaderOutcome ==
  frSt.pc = "done" =>
    LET e == C14_Expected(frSt.f) IN
    /\ frSt.err = e.err /\ frSt.out = e.out /\ frSt.size = e.size

\* the same, on the folders whose bind pairs and packed list stay within the
\* folder's stream counts
C14_InRange ==
  (/\ frSt.pc = "done"
   /\ \A k \in 1..Len(frSt.f.bindPair) : frSt.f.bindPair[k].out < FolderOut(frSt.f)
   /\ \A k \in 1..Len(frSt.f.packed) : frSt.f.packed[k] < FolderIn(frSt.f)) =>
    LET e == C14_Expected(frSt.f) IN
    /\ frSt.err = e.err /\ frSt.out = e.out /\ frSt.size = e.size

(***************************************************************************)
(* The AES harness: one aes7z readCloser as NewReader returns it, over an  *)
(* underlying stream of up to MaxBlocks whole cipher blocks followed by up *)
(* to MaxTail bytes of a further block, and a client that calls Password,  *)
(* Read and Close in any order.  aesSt.open is rc.rc # nil, aesSt.cbc is   *)
(* rc.cbc # nil, aesSt.buf is rc.buf.Len(), aesSt.left the whole blocks    *)
(* and aesSt.tail the bytes after them not yet read, aesSt.faulted tells   *)
(* that the underlying stream has failed; the other fields record calls.   *)
(***************************************************************************)
ReadLens == {0, 1, BlockSize, BlockSize + 1}

NoCall == [op |-> "none", err |-> "nil", n |-> 0,
           pwCalled |-> FALSE, pwOk |-> FALSE, closeCalled |-> FALSE, closedOk |-> FALSE]

AesInit ==
  /\ IdleMain /\ IdlePool /\ IdleSeek /\ IdleVol
  /\ IdleSig /\ IdleFr /\ IdleReg /\ IdleList /\ IdleSi /\ IdleLate
  /\ \E b \in 0..MaxBlocks, t \in 0..MaxTail :
       aesSt = [pc |-> "created", open |-> TRUE, cbc |-> FALSE, buf |-> 0, left |-> b,
                tail |-> t, faulted |-> FALSE, pwCalled |-> FALSE, pwOk |-> FALSE, closeCalled |-> FALSE,
                closedOk |-> FALSE, last |-> NoCall]

\* what the calls made so far amount to, as seen by the next call
Called(op, err, n) ==
  [op |-> op, err |-> err, n |-> n,
   pwCalled |-> aesSt.pwCalled, pwOk |-> aesSt.pwOk,
   closeCalled |-> aesSt.closeCalled, closedOk |-> aesSt.closedOk]

\* the loop over the cipher blocks and the read from rc.buf; fails: the first
\* io.ReadFull returns an error that is not io.EOF.  io.ReadFull on fewer than
\* BlockSize remaining bytes returns io.ErrUnexpectedEOF, which is not io.EOF;
\* the blocks decrypted before it stay in rc.buf
AesDecrypt(len, fails) ==
  LET need == IF aesSt.buf >= len THEN 0
              ELSE (len - aesSt.buf + BlockSize - 1) \div BlockSize
      take == Min2(need, aesSt.left)
      have == aesSt.buf + take * BlockSize
      n == Min2(len, have)
  IN
  IF fails /\ need > 0
    THEN [err |-> "errReadingBlock", n |-> 0, buf |-> aesSt.buf, left |-> aesSt.left,
          tail |-> aesSt.tail, faulted |-> TRUE]
  ELSE IF need > take /\ aesSt.tail > 0
    THEN [err |-> "errReadingBlock", n |-> 0, buf |-> have, left |-> aesSt.left - take,
          tail |-> 0, faulted |-> aesSt.faulted]
  ELSE [err |-> IF have = 0 /\ len > 0 THEN "EOF" ELSE "nil",
        n |-> n, buf |-> have - n, left |-> aesSt.left - take,
        tail |-> aesSt.tail, faulted |-> aesSt.faulted]

\* a faulty Read: no check of rc.cbc
AesReadUnkeyed(len, fails) ==
  IF ~aesSt.open
    THEN [err |-> "errAlreadyClosed", n |-> 0, buf |-> aesSt.buf, left |-> aesSt.left,
          tail |-> aesSt.tail, faulted |-> aesSt.faulted]
    ELSE AesDecrypt(len, fails)

\* readCloser.Read(p) with len(p) = len
AesReadResult(len, fails) ==
  IF ~aesSt.open
    THEN [err |-> "errAlreadyClosed", n |-> 0, buf |-> aesSt.buf, left |-> aesSt.left,
          tail |-> aesSt.tail, faulted |-> aesSt.faulted]
  ELSE IF ~aesSt.cbc
    THEN [err |-> "errNoPasswordSet", n |-> 0, buf |-> aesSt.buf, left |-> aesSt.left,
          tail |-> aesSt.tail, faulted |-> aesSt.faulted]
  ELSE AesDecrypt(len, fails)

\* readCloser.Password: calculateKey or aes.NewCipher may fail
AesPassword ==
  /\ \E ok \in BOOLEAN :
       aesSt' = [aesSt EXCEPT !.cbc = IF ok THEN TRUE ELSE @,
                              !.pwCalled = TRUE,
                              !.pwOk = IF ok THEN TRUE ELSE @,
                              !.pc = IF ~aesSt.open THEN "closed"
                                     ELSE IF ok /\ @ = "created" THEN "password-set" ELSE @,
                              !.last = Called("Password", IF ok THEN "nil" ELSE "errKey", 0)]
  /\ UNCHANGED << restVars, sigSt, frSt, regSt, listSt, siSt >>

\* readCloser.Read
AesRead ==
  /\ \E len \in ReadLens, fails \in BOOLEAN :
       LET r == AesReadResult(len, fails) IN
       aesSt' = [aesSt EXCEPT !.buf = r.buf, !.left = r.left,
                              !.tail = r.tail, !.faulted = r.faulted,
                              !.pc = IF r.err \in {"nil", "EOF"} /\ aesSt.open THEN "reading" ELSE @,
                              !.last = Called("Read", r.err, r.n)]
  /\ UNCHANGED << restVars, sigSt, frSt, regSt, listSt, siSt >>

\* readCloser.Close: the Close of the underlying stream may fail
AesClose ==
  /\ \E fails \in BOOLEAN :
       IF ~aesSt.open
         THEN aesSt' = [aesSt EXCEPT !.closeCalled = TRUE,
                                     !.last = Called("Close", "errAlreadyClosed", 0)]
       ELSE IF fails
         THEN aesSt' = [aesSt EXCEPT !.closeCalled = TRUE,
                                     !.last = Called("Close", "errClosing", 0)]
       ELSE aesSt' = [aesSt EXCEPT !.open = FALSE, !.pc = "closed",
                                   !.closeCalled = TRUE, !.closedOk = TRUE,
                                   !.last = Called("Close", "nil", 0)]
  /\ UNCHANGED << restVars, sigSt, frSt, regSt, listSt, siSt >>

AesNext == AesPassword \/ AesRead \/ AesClose

SpecAes == AesInit /\ [][AesNext]_vars

\* C15 as stated: the third clause for every Close call, whatever it returned
C15_Original ==
  LET L == aesSt.last IN
  /\ (L.op = "Read" /\ ~L.pwCalled /\ ~L.closeCalled) => (L.err = "errNoPasswordSet" /\ L.n = 0)
  /\ (L.op = "Read" /\ L.n > 0) => L.pwOk
  /\ (L.op \in {"Read", "Close"} /\ L.closeCalled) => (L.err = "errAlreadyClosed" /\ L.n = 0)

\* C15: a Read made before any Password call on a reader that is not closed fails
\* with the no-password error and returns no data; a Read returns data only after
\* a Password call has succeeded; once a Close has returned nil every later Read
\* and Close fails with the already-closed error.
C15_Lifecycle ==
  LET L == aesSt.last IN
  /\ (L.op = "Read" /\ ~L.pwCalled /\ ~L.closedOk) => (L.err = "errNoPasswordSet" /\ L.n = 0)
  /\ (L.op = "Read" /\ L.n > 0) => L.pwOk
  /\ (L.op \in {"Read", "Close"} /\ L.closedOk) => (L.err = "errAlreadyClosed" /\ L.n = 0)
  /\ aesSt.pc = "closed" <=> aesSt.closedOk
  /\ aesSt.pc = "reading" => aesSt.pwOk

\* a reader that refused a Read before Password, delivered data after it, was
\* closed, and refused the next Read
C15_Witness ==
  /\ aesSt.pc = "closed" /\ aesSt.pwOk /\ aesSt.left = 0 /\ aesSt.buf > 0
  /\ aesSt.last.op = "Read" /\ aesSt.last.closedOk /\ aesSt.last.err = "errAlreadyClosed"

\* C25 as stated: when the upstream ends in the middle of a block the decoder
\* drops the partial block and Read ends with EOF: unless the upstream itself has
\* failed, no Read returns the block-reading error.
C25_PartialBlockDropped ==
  (aesSt.last.op = "Read" /\ ~aesSt.faulted) => aesSt.last.err # "errReadingBlock"

(***************************************************************************)
(* The registry harness: the map decompressors after the package's init,   *)
(* and a client that calls RegisterDecompressor and decompressor with      *)
(* built-in and other method ids.  A method id and a Decompressor are      *)
(* written as numbers; method ids 1..Builtin are the ones init registers,  *)
(* with decompressor 0.  regSt.asked[m] is the decompressor of the latest  *)
(* RegisterDecompressor call for m.                                        *)
(***************************************************************************)
Builtin == 1

Methods == 1..(Builtin + MaxCustom)

Dcomps == 1..MaxCustom

None == 0 - 1

\* sync.Map.LoadOrStore: [map, loaded]
LoadOrStore(m, key, value) ==
  IF m[key] # None THEN [map |-> m, loaded |-> TRUE]
  ELSE [map |-> [m EXCEPT ![key] = value], loaded |-> FALSE]

\* decompressor(method): the Decompressor, or None for nil
decompressor(m, method) == m[method]

RegInit ==
  /\ IdleMain /\ IdlePool /\ IdleSeek /\ IdleVol
  /\ IdleSig /\ IdleFr /\ IdleAes /\ IdleList /\ IdleSi /\ IdleLate
  /\ regSt = [pc |-> "ready",
              map |-> [m \in Methods |-> IF m <= Builtin THEN 0 ELSE None],
              asked |-> [m \in Methods |-> None],
              last |-> [op |-> "none", method |-> 0, dcomp |-> None, panic |-> FALSE]]

\* RegisterDecompressor(method, dcomp)
RegisterDecompressor ==
  /\ \E method \in Methods, dcomp \in Dcomps :
       LET r == LoadOrStore(regSt.map, method, dcomp) IN
       regSt' = [regSt EXCEPT !.map = r.map,
                              !.asked[method] = dcomp,
                              !.last = [op |-> "Register", method |-> method,
                                        dcomp |-> dcomp, panic |-> r.loaded]]
  /\ UNCHANGED << restVars, sigSt, frSt, aesSt, listSt, siSt >>

\* decompressor(method), as folder.coderReader calls it
RegLookup ==
  /\ \E method \in Methods :
       regSt' = [regSt EXCEPT !.last = [op |-> "Lookup", method |-> method,
                                        dcomp |-> decompressor(regSt.map, method),
                                        panic |-> FALSE]]
  /\ UNCHANGED << restVars, sigSt, frSt, aesSt, listSt, siSt >>

RegNext == RegisterDecompressor \/ RegLookup

SpecRegister == RegInit /\ [][RegNext]_vars

\* C16 as stated: registering a decompressor for a method id that already has one
\* is allowed (the call returns), and a lookup of a method id returns the
\* decompressor of the latest registration for it.
C16_LastRegistrationWins ==
  /\ regSt.last.op = "Register" => ~regSt.last.panic
  /\ \A m \in Methods :
       regSt.asked[m] # None => decompressor(regSt.map, m) = regSt.asked[m]
  /\ (regSt.last.op = "Lookup" /\ regSt.asked[regSt.last.method] # None) =>
       regSt.last.dcomp = regSt.asked[regSt.last.method]

(***************************************************************************)
(* The filesystem harness: Reader.Open by path, File.Open, and Read, Stat  *)
(* and ReadDir on the handle, over an archive of up to MaxEntries entries. *)
(* A cleaned path is the sequence of its elements (numbers, ordered as the *)
(* strings are; << >> is "."); an entry's Name is a path in one of three   *)
(* spellings: "d/a" (plain), "./d/a" (dot) and "d/a/" (slash, which is how *)
(* Reader.init spells a directory).  An entry is [path, form, empty]; a    *)
(* fileListEntry is [name, file, isDir, isDup] with file the index in      *)
(* z.File, 0 for nil.                                                      *)
(***************************************************************************)
Paths == { << e >> : e \in 1..MaxElem } \cup { << MaxElem, e >> : e \in 1..(MaxElem - 1) }

Entries ==
  { e \in [path : Paths, form : {"plain", "dot", "slash"}, empty : BOOLEAN] :
      e.form = "slash" => e.empty }

\* toValidName: path.Clean drops "./" and the trailing slash
toValidName(e) == e.path

\* split
SplitDir(name) == IF name = << >> THEN << >> ELSE SubSeq(name, 1, Len(name) - 1)
SplitElem(name) == IF name = << >> THEN 0 ELSE name[Len(name)]

\* x < y on strings, for paths
RECURSIVE StrLess(_, _)
StrLess(x, y) ==
  IF y = << >> THEN FALSE
  ELSE IF x = << >> THEN TRUE
  ELSE IF Head(x) # Head(y) THEN Head(x) < Head(y)
  ELSE StrLess(Tail(x), Tail(y))

fileEntryLess(x, y) ==
  \/ StrLess(SplitDir(x), SplitDir(y))
  \/ SplitDir(x) = SplitDir(y) /\ SplitElem(x) < SplitElem(y)

IndexOfName(list, name, isDir) ==
  LET hits == { k \in 1..Len(list) :
                  list[k].name = name /\ list[k].isDir = isDir /\ list[k].file # 0 } IN
  IF hits = {} THEN 0 ELSE CHOOSE k \in hits : TRUE

\* z.fileList[idx].isDup = true
FlagDup(list, idx) == [list EXCEPT ![idx].isDup = TRUE]

\* the loop over z.File of initFileList: the list and the set dirs
RECURSIVE ListFilesFrom(_, _, _, _)
ListFilesFrom(files, i, list, dirs) ==
  IF i > Len(files) THEN [list |-> list, dirs |-> dirs]
  ELSE LET name == toValidName(files[i])
           isDir == files[i].form = "slash"
           f == IndexOfName(list, name, FALSE)
           d == IndexOfName(list, name, TRUE)
       IN
       IF f # 0 THEN ListFilesFrom(files, i + 1, FlagDup(list, f), dirs)
       ELSE IF d # 0 THEN ListFilesFrom(files, i + 1, FlagDup(list, d), dirs)
       ELSE ListFilesFrom(files, i + 1,
                          Append(list, [name |-> name, file |-> i,
                                        isDir |-> isDir, isDup |-> FALSE]),
                          dirs \cup { SubSeq(name, 1, n) : n \in 1..(Len(name) - 1) })

\* the loop over dirs of initFileList (the order of a map range does not matter:
\* each dir touches its own entry)
RECURSIVE ListDirsFrom(_, _)
ListDirsFrom(list, dirs) ==
  IF dirs = {} THEN list
  ELSE LET dir == CHOOSE x \in dirs : TRUE
           f == IndexOfName(list, dir, FALSE)
       IN
       IF IndexOfName(list, dir, TRUE) # 0 THEN ListDirsFrom(list, dirs \ {dir})
       ELSE IF f # 0 THEN ListDirsFrom(FlagDup(list, f), dirs \ {dir})
       ELSE ListDirsFrom(Append(list, [name |-> dir, file |-> 0,
                                       isDir |-> TRUE, isDup |-> FALSE]),
                         dirs \ {dir})

\* sort.Slice with fileEntryLess (the names of the list are distinct)
RECURSIVE SortList(_)
SortList(es) ==
  IF es = {} THEN << >>
  ELSE LET m == CHOOSE x \in es : \A y \in es : y = x \/ fileEntryLess(x.name, y.name) IN
       << m >> \o SortList(es \ {m})

initFileList(files) ==
  LET a == ListFilesFrom(files, 1, << >>, {}) IN
  SortList(Range(ListDirsFrom(a.list, a.dirs)))

dotFile == [name |-> << >>, file |-> 0, isDir |-> TRUE, isDup |-> FALSE]

NoEntry == [name |-> << >>, file |-> -1, isDir |-> FALSE, isDup |-> FALSE]

\* Reader.openLookup: the entry, or NoEntry for nil
openLookup(list, name) ==
  IF name = << >> THEN dotFile
  ELSE LET ge == { k \in 1..Len(list) : ~fileEntryLess(list[k].name, name) }
           i == IF ge = {} THEN Len(list) + 1 ELSE CHOOSE k \in ge : \A m \in ge : k <= m
       IN
       IF i <= Len(list) /\ list[i].name = name THEN list[i] ELSE NoEntry

\* Reader.openReadDir
openReadDir(list, dir) ==
  LET ks == { k \in 1..Len(list) : SplitDir(list[k].name) = dir } IN
  [n \in 1..Cardinality(ks) |->
     list[CHOOSE k \in ks : Cardinality({ m \in ks : m < k }) = n - 1]]

\* fileListEntry.stat: the error, "nil" when it returns the entry's info
EntryStat(e) == IF e.isDup THEN "errDuplicate" ELSE "nil"

\* File.Open on an entry: the concrete reader it returns and whether the pool
\* of the file's folder was asked
FileOpenResult(f) ==
  IF f.empty THEN [kind |-> "nopCloser", pool |-> FALSE, left |-> 0]
  ELSE [kind |-> "fileReader", pool |-> TRUE, left |-> 1]

NoHandle == [kind |-> "none", left |-> 0, entry |-> NoEntry]

NoFsCall == [op |-> "none", err |-> "nil", n |-> 0, file |-> 0, pool |-> FALSE]

FsInit ==
  /\ IdleMain /\ IdlePool /\ IdleSeek /\ IdleVol
  /\ IdleSig /\ IdleFr /\ IdleAes /\ IdleReg /\ IdleSi /\ IdleLate
  /\ \E n \in 0..MaxEntries : \E files \in [1..n -> Entries] :
       listSt = [pc |-> "opened", files |-> files, once |-> FALSE, list |-> << >>,
                 handle |-> NoHandle, last |-> NoFsCall]

\* z.fileList after z.initFileList()
ListNow == IF listSt.once THEN listSt.list ELSE initFileList(listSt.files)

\* Reader.Open(name); rc.(iofs.File) panics on a reader without a Stat method
FsOpen ==
  /\ \E name \in Paths \cup {<< >>} :
       LET list == ListNow
           e == openLookup(list, name)
           r == FileOpenResult(listSt.files[e.file])
       IN
       listSt' =
         IF e = NoEntry
           THEN [listSt EXCEPT !.once = TRUE, !.list = list, !.handle = NoHandle,
                               !.last = [op |-> "Open", err |-> "ErrNotExist", n |-> 0,
                                         file |-> 0, pool |-> FALSE]]
         ELSE IF e.isDir
           THEN [listSt EXCEPT !.once = TRUE, !.list = list,
                               !.handle = [kind |-> "openDir", left |-> 0, entry |-> e],
                               !.last = [op |-> "Open", err |-> "nil", n |-> 0,
                                         file |-> e.file, pool |-> FALSE]]
         ELSE IF r.kind = "nopCloser"
           THEN [listSt EXCEPT !.once = TRUE, !.list = list, !.handle = NoHandle,
                               !.pc = "panicked",
                               !.last = [op |-> "Open", err |-> "panic", n |-> 0,
                                         file |-> e.file, pool |-> r.pool]]
         ELSE [listSt EXCEPT !.once = TRUE, !.list = list,
                             !.handle = [kind |-> r.kind, left |-> r.left, entry |-> e],
                             !.last = [op |-> "Open", err |-> "nil", n |-> 0,
                                       file |-> e.file, pool |-> r.pool]]
  /\ listSt.pc = "opened"
  /\ UNCHANGED << restVars, sigSt, frSt, aesSt, regSt, siSt >>

\* File.Open on z.File[i]
FsFileOpen ==
  /\ listSt.pc = "opened"
  /\ \E i \in 1..Len(listSt.files) :
       LET r == FileOpenResult(listSt.files[i]) IN
       listSt' = [listSt EXCEPT !.handle = [kind |-> r.kind, left |-> r.left, entry |-> NoEntry],
                                !.last = [op |-> "FileOpen", err |-> "nil", n |-> 0,
                                          file |-> i, pool |-> r.pool]]
  /\ UNCHANGED << restVars, sigSt, frSt, aesSt, regSt, siSt >>

\* Read on the handle with a buffer of one byte or more
FsRead ==
  /\ listSt.pc = "opened" /\ listSt.handle.kind # "none"
  /\ listSt' =
       IF listSt.handle.kind = "openDir"
         THEN [listSt EXCEPT !.last = [op |-> "Read", err |-> "errIsDirectory", n |-> 0,
                                       file |-> listSt.last.file, pool |-> FALSE]]
       ELSE IF listSt.handle.left = 0
         THEN [listSt EXCEPT !.last = [op |-> "Read", err |-> "EOF", n |-> 0,
                                       file |-> listSt.last.file, pool |-> FALSE]]
       ELSE [listSt EXCEPT !.handle.left = 0,
                           !.last = [op |-> "Read", err |-> "nil", n |-> listSt.handle.left,
                                     file |-> listSt.last.file, pool |-> FALSE]]
  /\ UNCHANGED << restVars, sigSt, frSt, aesSt, regSt, siSt >>

\* Stat on the handle: openDir.Stat is e.stat(), fileReader.Stat cannot fail
FsStat ==
  /\ listSt.pc = "opened" /\ listSt.handle.kind \in {"openDir", "fileReader"}
  /\ listSt' = [listSt EXCEPT !.last =
                   [op |-> "Stat",
                    err |-> IF listSt.handle.kind = "openDir"
                              THEN EntryStat(listSt.handle.entry) ELSE "nil",
                    n |-> 0, file |-> listSt.last.file, pool |-> FALSE]]
  /\ UNCHANGED << restVars, sigSt, frSt, aesSt, regSt, siSt >>

\* ReadDir(-1) on a directory handle: stat of every entry of the directory
FsReadDir ==
  /\ listSt.pc = "opened" /\ listSt.handle.kind = "openDir"
  /\ LET es == openReadDir(listSt.list, listSt.handle.entry.name) IN
     listSt' = [listSt EXCEPT !.last =
                  [op |-> "ReadDir",
                   err |-> IF \E k \in 1..Len(es) : EntryStat(es[k]) # "nil"
                             THEN "errDuplicate" ELSE "nil",
                   n |-> Len(es), file |-> listSt.last.file, pool |-> FALSE]]
  /\ UNCHANGED << restVars, sigSt, frSt, aesSt, regSt, siSt >>

FsNext == FsOpen \/ FsFileOpen \/ FsRead \/ FsStat \/ FsReadDir

SpecFs == FsInit /\ [][FsNext]_vars

\* the entries of z.File that clean to path p, in archive order
C17_Same(p) == { i \in 1..Len(listSt.files) : toValidName(listSt.files[i]) = p }

\* C17 as stated: when two or more entries clean to the same path, the lookup of
\* the path returns the first of them, that entry is not flagged isDup and its
\* stat succeeds; stat fails on flagged entries only.
C17_FirstServed ==
  listSt.once =>
    /\ \A p \in Paths :
         Cardinality(C17_Same(p)) >= 2 =>
           LET e == openLookup(listSt.list, p) IN
           /\ e.file = CHOOSE i \in C17_Same(p) : \A j \in C17_Same(p) : i <= j
           /\ ~e.isDup
           /\ EntryStat(e) = "nil"
    /\ \A k \in 1..Len(listSt.list) :
         EntryStat(listSt.list[k]) # "nil" <=> listSt.list[k].isDup

\* the part of C17 that holds: the list keeps one entry per path, the first
C17_FirstKept ==
  listSt.once =>
    \A p \in Paths :
      Cardinality(C17_Same(p)) >= 1 =>
        LET e == openLookup(listSt.list, p) IN
        /\ e.file = CHOOSE i \in C17_Same(p) : \A j \in C17_Same(p) : i <= j
        /\ e.isDup <=> (\/ Cardinality(C17_Same(p)) >= 2
                        \/ (~e.isDir /\ \E i \in 1..Len(listSt.files) :
                               /\ Len(listSt.files[i].path) > Len(p)
                               /\ SubSeq(listSt.files[i].path, 1, Len(p)) = p))

\* C18 as stated: every open of an entry without content, by File.Open or by
\* path, returns a reader (no panic) without asking the pool, and every Read on
\* that reader returns no bytes and io.EOF.
C18_EmptyOpen ==
  LET L == listSt.last IN
  (L.file > 0 /\ listSt.files[L.file].empty /\ listSt.files[L.file].form # "slash") =>
    /\ L.op \in {"Open", "FileOpen"} =>
         (L.err = "nil" /\ ~L.pool /\ listSt.handle.kind # "none")
    /\ L.op = "Read" => (L.n = 0 /\ L.err = "EOF")

\* the part of C18 that holds: File.Open
C18_FileOpenEmpty ==
  LET L == listSt.last IN
  (L.file > 0 /\ listSt.files[L.file].empty /\ listSt.handle.entry = NoEntry) =>
    /\ L.op = "FileOpen" => (L.err = "nil" /\ ~L.pool /\ listSt.handle.kind = "nopCloser")
    /\ L.op = "Read" => (L.n = 0 /\ L.err = "EOF")

(***************************************************************************)
(* The streams-info harness: readStreamsInfo on a record given as the      *)
(* sequence of the property ids it reads with ReadByte; the body of a      *)
(* PackInfo, UnpackInfo or SubStreamsInfo is read as a whole by its own    *)
(* function, which fails for the one named by fail.                        *)
(***************************************************************************)
Ids == {"idEnd", "idPackInfo", "idUnpackInfo", "idSubStreamsInfo", "idFilesInfo"}

Parts == << "idPackInfo", "idUnpackInfo", "idSubStreamsInfo" >>

\* the three optional parts in turn, then the closing id; s: the parts present.
\* readSubStreamsInfo is passed s.unpackInfo.folder: a nil s.unpackInfo is
\* dereferenced there
RECURSIVE StreamsInfoFrom(_, _, _, _, _)
StreamsInfoFrom(k, id, rest, s, fail) ==
  IF k > Len(Parts)
    THEN IF id # "idEnd" THEN [err |-> "errUnexpectedID", s |-> {}]
         ELSE [err |-> "nil", s |-> s]
  ELSE IF id # Parts[k] THEN StreamsInfoFrom(k + 1, id, rest, s, fail)
  ELSE IF Parts[k] = "idSubStreamsInfo" /\ "idUnpackInfo" \notin s
    THEN [err |-> "panic", s |-> {}]
  ELSE IF fail = Parts[k] THEN [err |-> "errRead", s |-> {}]
  ELSE IF rest = << >> THEN [err |-> "EOF", s |-> {}]
  ELSE StreamsInfoFrom(k + 1, Head(rest), Tail(rest), s \cup {Parts[k]}, fail)

readStreamsInfo(ids, fail) ==
  IF ids = << >> THEN [err |-> "EOF", s |-> {}]
  ELSE StreamsInfoFrom(1, Head(ids), Tail(ids), {}, fail)

SiInit ==
  /\ IdleMain /\ IdlePool /\ IdleSeek /\ IdleVol
  /\ IdleSig /\ IdleFr /\ IdleAes /\ IdleReg /\ IdleList /\ IdleLate
  /\ \E n \in 0..MaxIds : \E ids \in [1..n -> Ids] :
       \E fail \in {"none", "idPackInfo", "idUnpackInfo", "idSubStreamsInfo"} :
         siSt = [pc |-> "new", ids |-> ids, fail |-> fail]

\* readStreamsInfo, as readHeader and readEncodedHeader call it
SiRead ==
  /\ siSt.pc = "new"
  /\ LET r == readStreamsInfo(siSt.ids, siSt.fail) IN
     siSt' = [pc |-> "done", ids |-> siSt.ids, fail |-> siSt.fail, err |-> r.err, s |-> r.s]
  /\ UNCHANGED << restVars, sigSt, frSt, aesSt, regSt, listSt >>

SpecStreamsInfo == SiInit /\ [][SiRead]_vars

\* the record carries a SubStreamsInfo and no UnpackInfo before it
C19_MissingUnpack ==
  \/ Len(siSt.ids) >= 1 /\ siSt.ids[1] = "idSubStreamsInfo"
  \/ /\ Len(siSt.ids) >= 2 /\ siSt.ids[1] = "idPackInfo" /\ siSt.fail # "idPackInfo"
     /\ siSt.ids[2] = "idSubStreamsInfo"

\* C19 as stated: a StreamsInfo with a SubStreamsInfo and no UnpackInfo makes the
\* open fail with ErrMissingUnpackInfo, returned as an error value.
C19_MissingUnpackInfo ==
  (siSt.pc = "done" /\ C19_MissingUnpack) => siSt.err = "ErrMissingUnpackInfo"

\* every other record is parsed or refused with an error value
C19_OtherRecords ==
  (siSt.pc = "done" /\ ~C19_MissingUnpack) => siSt.err # "panic"

(***************************************************************************)
(* The seek harness: one folderReadCloser of a given size, on which Seek   *)
(* and Read are called with every argument.                                *)
(***************************************************************************)
Whences == {SeekStart, SeekCurrent, SeekEnd, 3}

SeekInit ==
  /\ IdleMain /\ IdlePool /\ IdleVol /\ IdleUnits
  /\ \E sz \in 0..MaxSeekSize :
       seekSt = [pos |-> 0, size |-> sz, h |-> Zero32, from |-> 0, last |-> [called |-> FALSE]]

\* rc.Seek(offset, whence)
SeekCall ==
  \E offset \in MinInt..MaxInt, whence \in Whences, fail \in -1..(MaxSeekSize - 1) :
    LET r == Seek(seekSt.pos, seekSt.size, offset, whence, fail) IN
    /\ seekSt' = [pos |-> r.pos, size |-> seekSt.size,
                  h |-> TeeWrite(seekSt.h, seekSt.pos, r.pos - seekSt.pos),
                  from |-> seekSt.pos,
                  last |-> [called |-> TRUE, pos |-> seekSt.pos, offset |-> offset,
                            whence |-> whence, n |-> r.n, err |-> r.err]]
    /\ UNCHANGED << mainVars, poolVars, volSt, unitVars >>

\* rc.Read(p) returning n bytes: the tee writes them to the hash and the counter
SeekRead ==
  \E n \in 1..MaxRead :
    /\ seekSt.pos + n <= seekSt.size
    /\ seekSt' = [seekSt EXCEPT !.pos = @ + n, !.h = TeeWrite(@, seekSt.pos, n),
                                !.from = seekSt.pos,
                                !.last = [called |-> FALSE]]
    /\ UNCHANGED << mainVars, poolVars, volSt, unitVars >>

SeekNext == SeekCall \/ SeekRead

SpecSeek == SeekInit /\ [][SeekNext]_vars

\* the target the claim names, in int64 arithmetic
C3_Target(L) ==
  CASE L.whence = SeekStart -> L.offset
    [] L.whence = SeekCurrent -> Wrap(L.pos + L.offset)
    [] L.whence = SeekEnd -> Wrap(seekSt.size + L.offset)
    [] OTHER -> 0

C3_Class(L) ==
  IF L.whence \notin {SeekStart, SeekCurrent, SeekEnd} THEN "errInvalidWhence"
  ELSE IF C3_Target(L) < 0 THEN "errNegativeSeek"
  ELSE IF C3_Target(L) < L.pos THEN "errSeekBackwards"
  ELSE IF C3_Target(L) > seekSt.size THEN "errSeekEOF"
  ELSE "other"

\* C3 as stated: an unknown whence, a negative target, a target below the position
\* and a target above Size fail with their errors, in that order, and in every
\* other case the call succeeds, returns the target and leaves the position there.
C3_Original ==
  seekSt.last.called =>
    LET L == seekSt.last IN
    IF C3_Class(L) # "other"
      THEN L.err = C3_Class(L) /\ L.n = 0 /\ seekSt.pos = L.pos
      ELSE L.err = "nil" /\ L.n = C3_Target(L) /\ seekSt.pos = C3_Target(L)

\* C3 (amended): the four errors are classified as stated and leave the position
\* alone; in every other case either the call succeeds, returns the target and the
\* position equals the target, or a discarding read failed: the call returns the
\* wrapped seek error and the position lies between the old position and the target.
C3_SeekClassification ==
  seekSt.last.called =>
    LET L == seekSt.last IN
    IF C3_Class(L) # "other"
      THEN L.err = C3_Class(L) /\ L.n = 0 /\ seekSt.pos = L.pos
      ELSE \/ L.err = "nil" /\ L.n = C3_Target(L) /\ seekSt.pos = C3_Target(L)
           \/ /\ L.err = "errSeeking" /\ L.n = 0
              /\ L.pos <= seekSt.pos /\ seekSt.pos < C3_Target(L)

\* a forward seek over at least one byte has succeeded
C3_Witness ==
  /\ seekSt.last.called /\ seekSt.last.err = "nil"
  /\ seekSt.last.pos < seekSt.pos /\ seekSt.pos = seekSt.size
  /\ seekSt.last.whence = SeekEnd

\* C20: after any mix of Reads and Seeks, Checksum() is the CRC-32 of the first p
\* bytes of the decoded output, p being the position (bytes discarded by a
\* forward seek are hashed like bytes read), and no call decreases the position
\* (seekSt.from is the position before the latest call).
C20_ChecksumOfPrefix ==
  /\ seekSt.h = Crc32Update(Zero32, DecodedFrom(0, seekSt.pos))
  /\ seekSt.from <= seekSt.pos

\* a Read of one byte followed by a successful forward seek over the rest
C20_Witness ==
  /\ seekSt.last.called /\ seekSt.last.err = "nil"
  /\ seekSt.last.pos = 1 /\ seekSt.pos = MaxSeekSize /\ seekSt.h # Zero32

(***************************************************************************)
(* The goroutine harness: NumGo goroutines open, read and close the files  *)
(* of one folder that owns an LRU pool.  The folder holds MaxGoFiles files *)
(* of one byte each, file k at offset k.  Each step is one stretch of      *)
(* File.Open or fileReader.Close between two points where another          *)
(* goroutine can run: a pool call is one step (it runs under p.mutex), and *)
(* a Put whose eviction callback has to send a Close error on p.errs stays *)
(* in that send, holding the mutex: nobody receives from p.errs but Put    *)
(* itself, after ContainsOrAdd has returned.                               *)
(***************************************************************************)
NumGo == 2
MaxGoFiles == 3
MaxGoPipes == 3

\* a goroutine: where it is, the pipeline it owns, the offset it seeks to or puts
\* at, and fr.n
GoIdle == [pc |-> "idle", rc |-> 0, n |-> 0, offset |-> 0]

GoInit ==
  /\ goSt = [cache |-> << >>, mutex |-> 0, pipes |-> << >>, faults |-> 0,
             go |-> [g \in 1..NumGo |-> GoIdle]]
  /\ IdleMain /\ IdlePool /\ IdleSeek /\ IdleVol
  /\ IdleSig /\ IdleFr /\ IdleAes /\ IdleReg /\ IdleList /\ IdleSi
  /\ IdleKey /\ IdleDelta /\ IdleFi /\ IdleBra

goFrame == << earlyVars, keySt, deltaSt, fiSt, braSt >>

\* File.Open up to the Seek: pool.Get(f.offset) under the mutex and, on a miss,
\* folderReader builds a new pipeline
GoOpenGet(g) ==
  \E f \in 0..(MaxGoFiles - 1) :
    LET get == PoolGet(goSt.cache, f)
        miss == get.rc = 0
    IN
    /\ goSt.go[g].pc = "idle" /\ goSt.mutex = 0
    /\ miss => Len(goSt.pipes) < MaxGoPipes
    /\ goSt' = [goSt EXCEPT
         !.cache = get.cache,
         !.pipes = IF miss THEN Append(@, [pos |-> 0, closes |-> 0]) ELSE @,
         !.go[g] = [pc |-> "seek", n |-> 0, offset |-> f,
                    rc |-> IF miss THEN Len(goSt.pipes) + 1 ELSE get.rc]]
    /\ UNCHANGED goFrame

\* rc.Seek(f.offset, io.SeekStart) and the fileReader is returned, or the error
GoOpenSeek(g) ==
  LET me == goSt.go[g]
      sk == Seek(goSt.pipes[me.rc].pos, MaxGoFiles, me.offset, SeekStart, -1)
  IN
  /\ me.pc = "seek"
  /\ goSt' = [goSt EXCEPT
       !.pipes[me.rc].pos = sk.pos,
       !.go[g] = IF sk.err = "nil" THEN [me EXCEPT !.pc = "open", !.n = 1, !.offset = 0]
                                   ELSE GoIdle]
  /\ UNCHANGED goFrame

\* fileReader.Read of one byte
GoRead(g) ==
  LET me == goSt.go[g] IN
  /\ me.pc = "open" /\ me.n > 0 /\ goSt.pipes[me.rc].closes = 0
  /\ goSt' = [goSt EXCEPT !.pipes[me.rc].pos = @ + 1, !.go[g].n = 0]
  /\ UNCHANGED goFrame

\* fileReader.Close up to the release: fr.rc == nil returns at once, otherwise
\* Seek(0, io.SeekCurrent) tells the position and the branch
GoCloseSeek(g) ==
  LET me == goSt.go[g]
      offset == goSt.pipes[me.rc].pos
  IN
  /\ me.pc = "open"
  /\ goSt' = [goSt EXCEPT
       !.go[g] = [me EXCEPT !.pc = IF offset = MaxGoFiles THEN "close" ELSE "put",
                            !.offset = offset]]
  /\ UNCHANGED goFrame

\* offset == fr.rc.Size(): fr.rc.Close(); on an error Close returns it and the
\* reader keeps fr.rc
GoCloseRc(g) ==
  \E closeFails \in BOOLEAN :
    LET me == goSt.go[g] IN
    /\ me.pc = "close"
    /\ closeFails => goSt.faults < MaxFaults
    /\ goSt' = [goSt EXCEPT
         !.pipes[me.rc].closes = @ + 1,
         !.faults = IF closeFails THEN @ + 1 ELSE @,
         !.go[g] = [me EXCEPT !.pc = IF closeFails THEN "open" ELSE "clear", !.offset = 0]]
    /\ UNCHANGED goFrame

\* pool.Put(offset, fr.rc) under the mutex
GoPut(g) ==
  \E closeFails \in BOOLEAN :
    LET me == goSt.go[g]
        put == PoolPut(goSt.cache, me.offset, me.rc, closeFails)
    IN
    /\ me.pc = "put" /\ goSt.mutex = 0
    /\ closeFails => put.evicted # 0 /\ goSt.faults < MaxFaults
    /\ goSt' = [goSt EXCEPT
         !.cache = put.cache,
         !.pipes = IF put.evicted # 0 THEN [@ EXCEPT ![put.evicted].closes = @ + 1] ELSE @,
         !.faults = IF closeFails THEN @ + 1 ELSE @,
         !.mutex = IF put.blocks THEN g ELSE 0,
         !.go[g] = [me EXCEPT !.pc = IF put.blocks THEN "send" ELSE "clear", !.offset = 0]]
    /\ UNCHANGED goFrame

\* fr.rc = nil; return nil
GoClear(g) ==
  /\ goSt.go[g].pc = "clear"
  /\ goSt' = [goSt EXCEPT !.go[g] = GoIdle]
  /\ UNCHANGED goFrame

GoNext ==
  \E g \in 1..NumGo :
    \/ GoOpenGet(g) \/ GoOpenSeek(g) \/ GoRead(g)
    \/ GoCloseSeek(g) \/ GoCloseRc(g) \/ GoPut(g) \/ GoClear(g)

SpecGo == GoInit /\ [][GoNext]_vars

\* the pipelines a goroutine owns: from Get or the build up to the call that
\* releases it
GoHeld(g) ==
  IF goSt.go[g].pc \in {"seek", "open", "put", "close"} THEN {goSt.go[g].rc} ELSE {}

GoStored == { goSt.cache[k].rc : k \in 1..Len(goSt.cache) }

\* C22: under every interleaving of File.Open and fileReader.Close on the files of
\* one folder, no pipeline is owned by two file readers at once, none is both
\* owned by a file reader and stored in the pool, and no stored pipeline (hence
\* none that Get returns) has been closed.
C22_ExclusivePipelines ==
  /\ \A g \in 1..NumGo, h \in 1..NumGo : g # h => GoHeld(g) \cap GoHeld(h) = {}
  /\ \A g \in 1..NumGo : GoHeld(g) \cap GoStored = {}
  /\ \A id \in GoStored : goSt.pipes[id].closes = 0
  /\ \A k \in 1..Len(goSt.cache), m \in 1..Len(goSt.cache) :
       goSt.cache[k].rc = goSt.cache[m].rc => k = m

\* one goroutine reads from its pipeline, another has just taken a pipeline
\* beyond the start of the folder from the pool, and a third pipeline is stored
C22_Witness ==
  /\ \E g \in 1..NumGo : goSt.go[g].pc = "open" /\ goSt.go[g].n > 0
  /\ \E g \in 1..NumGo : goSt.go[g].pc = "seek" /\ goSt.pipes[goSt.go[g].rc].pos > 0
  /\ GoStored # {}

(***************************************************************************)
(* The same harness under the Go scheduler: a goroutine that can take a    *)
(* step eventually takes it.  A goroutine waiting for the mutex, or in the *)
(* send on p.errs, has no step to take.                                    *)
(***************************************************************************)
GoStep(g) ==
  \/ GoOpenGet(g) \/ GoOpenSeek(g) \/ GoRead(g)
  \/ GoCloseSeek(g) \/ GoCloseRc(g) \/ GoPut(g) \/ GoClear(g)

FairSpecGo == SpecGo /\ \A g \in 1..NumGo : WF_vars(GoStep(g))

\* C23 as stated: every Put on the LRU pool returns (the caller goes on to clear
\* fr.rc), an evicting Put whose Close fails included, and no caller stays
\* blocked forever.
C23_EveryPutReturns ==
  \A g \in 1..NumGo : (goSt.go[g].pc = "put") ~> (goSt.go[g].pc = "clear")

\* C24 as stated: when Put has returned, the pipeline passed to it is stored in
\* the pool or has been closed, also when the pool already stores another
\* pipeline at the same offset.
C24_StoredOrClosed ==
  [][\A g \in 1..NumGo :
       (goSt.go[g].pc = "put" /\ goSt'.go[g].pc = "clear") =>
         \/ goSt.go[g].rc \in GoStored'
         \/ goSt'.pipes[goSt.go[g].rc].closes > 0]_vars

(***************************************************************************)
(* The key harness: the property bytes of one AES coder, as readCoder      *)
(* allocates them (make([]byte, size): capacity = length), the readers     *)
(* NewReader builds from them and the Password calls on those readers.     *)
(* A byte slice is a window [off, len] on its backing array; rc.salt is a  *)
(* window on the property bytes, rc.iv is a copy.  bytes.NewBuffer(salt)   *)
(* takes the window as its buffer, and a Write that fits the capacity      *)
(* behind the window is made in place.  A key is written as what is        *)
(* hashed: the cycles and the buffer's bytes.                              *)
(***************************************************************************)
MaxSalt == 1
MaxIv == 2
MaxPwLen == 1
MaxKeyReaders == 2
cacheSize == 10

KeyBytes == {0, 5}
PwChars == {97}
Passwords == UNION { [1..n -> PwChars] : n \in 0..MaxPwLen }

\* the UTF-16LE encoding of a password of characters below 256, no BOM
RECURSIVE Utf16LE(_)
Utf16LE(pw) == IF pw = << >> THEN << >> ELSE << Head(pw), 0 >> \o Utf16LE(Tail(pw))

SaltLen(p) == ((p[1] \div 128) % 2) + (p[2] \div 16)
IvLen(p) == ((p[1] \div 64) % 2) + (p[2] % 16)

\* bytes.NewBuffer(arr[off : off+len]) followed by Write(data): tryGrowByReslice
\* when the data fits cap - len, else a new backing array
BufferWrite(arr, off, len, data) ==
  LET n == Len(data)
      cap == Len(arr) - off
  IN
  IF n <= cap - len
    THEN [arr |-> [k \in 1..Len(arr) |->
                     IF k > off + len /\ k <= off + len + n THEN data[k - off - len]
                     ELSE arr[k]],
          bytes |-> SubSeq(arr, off + 1, off + len) \o data]
    ELSE [arr |-> arr, bytes |-> SubSeq(arr, off + 1, off + len) \o data]

\* aes7z.NewReader(p, _, readers) with one reader: the window of rc.salt, rc.iv
\* (BlockSize bytes, the rest zero) and rc.cycles
AesNewReader(p) ==
  IF Len(p) < 2 THEN [err |-> "errInsufficientProperties"]
  ELSE IF (p[1] \div 64) % 4 = 0 THEN [err |-> "errUnsupportedMethod"]
  ELSE IF Len(p) # 2 + SaltLen(p) + IvLen(p) THEN [err |-> "errInsufficientProperties"]
  ELSE [err |-> "nil", saltOff |-> 2, saltLen |-> SaltLen(p),
        iv |-> [k \in 1..BlockSize |->
                  IF k <= IvLen(p) THEN p[2 + SaltLen(p) + k] ELSE 0],
        cycles |-> p[1] % 64, key |-> << >>]

\* calculateKey(password, cycles, salt), salt the window [off, len] on arr:
\* [key, cache, arr]
calculateKey(kc, arr, off, len, password, cycles) ==
  LET ck == [password |-> password, cycles |-> cycles, salt |-> SubSeq(arr, off + 1, off + len)]
  IN
  IF \E e \in kc : e.ck = ck
    THEN [key |-> (CHOOSE e \in kc : e.ck = ck).key, cache |-> kc, arr |-> arr]
    ELSE LET b == BufferWrite(arr, off, len, Utf16LE(password))
             key == << cycles, b.bytes >>
         IN [key |-> key, cache |-> kc \cup {[ck |-> ck, key |-> key]}, arr |-> b.arr]

\* the two leading property bytes: flags and cycles, then the two size nibbles
KeyFlags == {0, 64, 128 + 63, 192}
KeySizes == {0, 1, 2, 16 + 1}

KeyInit ==
  /\ \E f \in KeyFlags, z \in KeySizes, h \in 0..2, n \in 0..(MaxSalt + MaxIv) :
       \E body \in [1..n -> KeyBytes] :
         LET p == SubSeq(<< f, z >>, 1, h) \o (IF h = 2 THEN body ELSE << >>) IN
         keySt = [props |-> p, props0 |-> p, cache |-> {}, rc |-> << >>, err |-> "nil"]
  /\ IdleMain /\ IdlePool /\ IdleSeek /\ IdleVol
  /\ IdleSig /\ IdleFr /\ IdleAes /\ IdleReg /\ IdleList /\ IdleSi
  /\ IdleGo /\ IdleDelta /\ IdleFi /\ IdleBra

keyFrame == << earlyVars, goSt, deltaSt, fiSt, braSt >>

\* folder.coderReader calls the decompressor on f.coder[coder].properties
KeyNewReader ==
  LET r == AesNewReader(keySt.props) IN
  /\ Len(keySt.rc) < MaxKeyReaders
  /\ keySt' = IF r.err = "nil"
                THEN [keySt EXCEPT !.rc = Append(@, r), !.err = "nil"]
                ELSE [keySt EXCEPT !.err = r.err]
  /\ UNCHANGED keyFrame

\* readCloser.Password(p)
KeyPassword ==
  \E i \in 1..Len(keySt.rc), pw \in Passwords :
    LET rc == keySt.rc[i]
        k == calculateKey(keySt.cache, keySt.props, rc.saltOff, rc.saltLen, pw, rc.cycles)
    IN
    /\ Cardinality(keySt.cache) < cacheSize
    /\ keySt' = [keySt EXCEPT !.props = k.arr, !.cache = k.cache,
                              !.rc[i].key = k.key, !.err = "nil"]
    /\ UNCHANGED keyFrame

KeyNext == KeyNewReader \/ KeyPassword

SpecKey == KeyInit /\ [][KeyNext]_vars

\* C26 as stated: Password, key derivation included, leaves the coder's property
\* bytes as they were, so every reader built for the folder has the salt and the
\* IV that the properties held when the header was read.
C26_PropertiesUnchanged ==
  /\ keySt.props = keySt.props0
  /\ \A i \in 1..Len(keySt.rc) :
       /\ keySt.rc[i].iv = AesNewReader(keySt.props0).iv
       /\ keySt.rc[i].saltLen = AesNewReader(keySt.props0).saltLen

(***************************************************************************)
(* The Delta harness: one delta readCloser as NewReader returns it for a   *)
(* property slice, over an upstream of up to MaxDeltaLen bytes, and a      *)
(* client that reads it in calls of any length.  Bytes are 0..255 and byte *)
(* arithmetic wraps as in Go.  deltaSt.state is rc.state[:rc.delta], the   *)
(* only part of the array the code touches.                                *)
(***************************************************************************)
MaxDeltaLen == 3
MaxDeltaRead == 2
stateSize == 256

DeltaBytes == {1, 255}
DeltaProps == {0, 1, 254, 255}

\* delta.NewReader(p, _, readers) with one reader
DeltaNewReader(p) ==
  IF Len(p) # 1
    THEN [err |-> "errInsufficientProperties", delta |-> 0]
    ELSE [err |-> "nil", delta |-> (p[1] + 1) % 256]

\* the inner loop of Read from a given i with j = 0: [p, buffer, i, j]
RECURSIVE DeltaInner(_, _, _, _, _)
DeltaInner(p, buffer, i, j, delta) ==
  IF j < delta /\ i < Len(p)
    THEN LET v == (buffer[j + 1] + p[i + 1]) % 256 IN
         DeltaInner([p EXCEPT ![i + 1] = v], [buffer EXCEPT ![j + 1] = v], i + 1, j + 1, delta)
    ELSE [p |-> p, buffer |-> buffer, i |-> i, j |-> j]

\* the outer loop of Read: for i := 0; i < n; { inner loop }.  With delta = 0 and
\* n > 0 the inner loop never runs and i never grows: the loop does not end
RECURSIVE DeltaOuter(_, _, _, _, _)
DeltaOuter(p, buffer, i, j, delta) ==
  IF i >= Len(p) THEN [p |-> p, buffer |-> buffer, j |-> j, ends |-> TRUE]
  ELSE IF delta = 0 THEN [p |-> p, buffer |-> buffer, j |-> 0, ends |-> FALSE]
  ELSE LET r == DeltaInner(p, buffer, i, 0, delta) IN
       DeltaOuter(r.p, r.buffer, r.i, r.j, delta)

\* readCloser.Read once the upstream has returned the bytes p: the bytes handed
\* to the caller and the new rc.state[:delta]
DeltaReadResult(state, delta, p) ==
  LET r == DeltaOuter(p, state, 0, 0, delta)
      j == IF r.j = delta THEN 0 ELSE r.j
  IN
  [ends |-> r.ends, p |-> r.p,
   state |-> SubSeq(r.buffer, j + 1, delta) \o SubSeq(r.buffer, 1, j)]

DeltaInit ==
  /\ \E n \in 0..2, b \in DeltaProps, len \in 0..MaxDeltaLen :
       \E in \in [1..len -> DeltaBytes] :
         LET props == [k \in 1..n |-> b]
             rc == DeltaNewReader(props)
         IN
         deltaSt = [pc |-> IF rc.err = "nil" THEN "open" ELSE "failed",
                    props |-> props, delta |-> rc.delta,
                    state |-> [k \in 1..rc.delta |-> 0],
                    in |-> in, pos |-> 0, out |-> << >>]
  /\ IdleMain /\ IdlePool /\ IdleSeek /\ IdleVol
  /\ IdleSig /\ IdleFr /\ IdleAes /\ IdleReg /\ IdleList /\ IdleSi
  /\ IdleGo /\ IdleKey /\ IdleFi /\ IdleBra

\* readCloser.Read(p) with len(p) = len; the upstream returns n of its bytes
DeltaRead ==
  /\ deltaSt.pc = "open"
  /\ \E len \in 0..MaxDeltaRead :
       \E n \in 0..Min2(len, Len(deltaSt.in) - deltaSt.pos) :
         LET r == DeltaReadResult(deltaSt.state, deltaSt.delta,
                                  SubSeq(deltaSt.in, deltaSt.pos + 1, deltaSt.pos + n))
         IN
         deltaSt' = IF r.ends
                      THEN [deltaSt EXCEPT !.state = r.state, !.pos = @ + n,
                                           !.out = @ \o r.p]
                      ELSE [deltaSt EXCEPT !.pc = "looping", !.pos = @ + n]
  /\ UNCHANGED << earlyVars, goSt, keySt, fiSt, braSt >>

SpecDelta == DeltaInit /\ [][DeltaRead]_vars

\* out[i] = in[i] + out[i - d] modulo 256, out[i - d] = 0 for i <= d
RECURSIVE C27_Decoded(_, _)
C27_Decoded(in, d) ==
  IF in = << >> THEN << >>
  ELSE LET n == Len(in)
           before == C27_Decoded(SubSeq(in, 1, n - 1), d)
       IN Append(before, (in[n] + (IF n > d THEN before[n - d] ELSE 0)) % 256)

\* C27 as stated: for every property byte p in 0..255 every Read returns, and
\* what the decoder has returned is the decoding with distance p + 1 of the
\* input read so far, whatever the split into Read calls.
C27_DeltaDecodes ==
  Len(deltaSt.props) = 1 =>
    /\ deltaSt.pc = "open"
    /\ deltaSt.out = C27_Decoded(SubSeq(deltaSt.in, 1, deltaSt.pos), deltaSt.props[1] + 1)

\* the same for the property bytes below 255
C27_BelowMax ==
  (Len(deltaSt.props) = 1 /\ deltaSt.props[1] < stateSize - 1) =>
    /\ deltaSt.pc = "open"
    /\ deltaSt.out = C27_Decoded(SubSeq(deltaSt.in, 1, deltaSt.pos), deltaSt.props[1] + 1)

(***************************************************************************)
(* The files-info harness: readFilesInfo on a header of up to MaxFiFiles   *)
(* files with up to MaxFiRecords records, each an EmptyStream or an        *)
(* EmptyFile record with its payload bytes, then the End id.  A bit vector *)
(* is packed eight bits to the byte, the highest bit first.                *)
(***************************************************************************)
MaxFiFiles == 3
MaxFiRecords == 2

\* payload bytes whose bits beyond the first MaxFiFiles are zero
FiBytes == { k * (2 ^ (8 - MaxFiFiles)) : k \in 0..(2 ^ MaxFiFiles - 1) }

\* bit i (from 0) of a packed vector: (b & mask) != 0, mask = 0x80 >> (i % 8)
FiBit(bytes, i) == (bytes[(i \div 8) + 1] \div (2 ^ (7 - (i % 8)))) % 2 = 1

\* readBool(r, count): count bits, or the error of ReadByte at the end of input
readBool(bytes, count) ==
  IF Len(bytes) * 8 < count
    THEN [err |-> "EOF", bits |-> << >>]
    ELSE [err |-> "nil", bits |-> [k \in 1..count |-> FiBit(bytes, k - 1)]]

\* case idEmptyStream: every file takes its bit, emptyStreams counts the set ones
FiEmptyStream(st, rec) ==
  LET empty == readBool(rec.data, Len(st.file)) IN
  IF empty.err # "nil" THEN [st EXCEPT !.err = empty.err]
  ELSE [st EXCEPT
          !.file = [k \in 1..Len(st.file) |-> [st.file[k] EXCEPT !.isEmptyStream = empty.bits[k]]],
          !.emptyStreams = @ + Cardinality({ k \in 1..Len(st.file) : empty.bits[k] })]

\* case idEmptyFile: j runs over the files, the ones without EmptyStream
\* included; empty[j] beyond the vector is an index out of range
FiEmptyFile(st, rec) ==
  LET empty == readBool(rec.data, st.emptyStreams)
      marked == { k \in 1..Len(st.file) : st.file[k].isEmptyStream }
  IN
  IF empty.err # "nil" THEN [st EXCEPT !.err = empty.err]
  ELSE IF \E k \in marked : k > Len(empty.bits) THEN [st EXCEPT !.err = "panic"]
  ELSE [st EXCEPT
          !.file = [k \in 1..Len(st.file) |->
                      IF k \in marked THEN [st.file[k] EXCEPT !.isEmptyFile = empty.bits[k]]
                      ELSE st.file[k]]]

\* the loop over the records up to idEnd
RECURSIVE readFilesInfo(_, _)
readFilesInfo(st, recs) ==
  IF recs = << >> \/ st.err # "nil" THEN st
  ELSE readFilesInfo(IF Head(recs).id = "EmptyStream" THEN FiEmptyStream(st, Head(recs))
                     ELSE FiEmptyFile(st, Head(recs)),
                     Tail(recs))

FiInit ==
  /\ \E files \in 0..MaxFiFiles, n \in 0..MaxFiRecords :
       \E ids \in [1..n -> {"EmptyStream", "EmptyFile"}], len \in [1..n -> 0..1],
          byte \in [1..n -> FiBytes] :
         fiSt = [pc |-> "new", files |-> files,
                 recs |-> [k \in 1..n |->
                             [id |-> ids[k], data |-> SubSeq(<< byte[k] >>, 1, len[k])]],
                 err |-> "nil", file |-> << >>]
  /\ IdleMain /\ IdlePool /\ IdleSeek /\ IdleVol
  /\ IdleSig /\ IdleFr /\ IdleAes /\ IdleReg /\ IdleList /\ IdleSi
  /\ IdleGo /\ IdleKey /\ IdleDelta /\ IdleBra

\* readFilesInfo(r)
FiRead ==
  /\ fiSt.pc = "new"
  /\ LET r == readFilesInfo([err |-> "nil", emptyStreams |-> 0,
                             file |-> [k \in 1..fiSt.files |->
                                         [isEmptyStream |-> FALSE, isEmptyFile |-> FALSE]]],
                            fiSt.recs)
     IN fiSt' = [fiSt EXCEPT !.pc = "done", !.err = r.err,
                             !.file = IF r.err = "nil" THEN r.file ELSE << >>]
  /\ UNCHANGED << earlyVars, goSt, keySt, deltaSt, braSt >>

SpecFilesInfo == FiInit /\ [][FiRead]_vars

\* the number of EmptyStream bits set among the first k files
C28_Rank(bytes, k) == Cardinality({ m \in 0..(k - 1) : FiBit(bytes, m) })

\* C28 as stated: for an EmptyStream record followed by an EmptyFile record that
\* holds one bit per file with the EmptyStream bit, readFilesInfo does not read
\* outside the vector, the k-th file with the EmptyStream bit takes the k-th
\* EmptyFile bit, and a file without the EmptyStream bit is not empty-file.
C28_EmptyFileBits ==
  ( /\ fiSt.pc = "done" /\ Len(fiSt.recs) = 2
    /\ fiSt.recs[1].id = "EmptyStream" /\ fiSt.recs[2].id = "EmptyFile"
    /\ Len(fiSt.recs[1].data) = 1 /\ Len(fiSt.recs[2].data) = 1 ) =>
    /\ fiSt.err = "nil"
    /\ \A k \in 1..fiSt.files :
         /\ fiSt.file[k].isEmptyStream = FiBit(fiSt.recs[1].data, k - 1)
         /\ fiSt.file[k].isEmptyFile =
              ( /\ FiBit(fiSt.recs[1].data, k - 1)
                /\ FiBit(fiSt.recs[2].data, C28_Rank(fiSt.recs[1].data, k) - 1) )

(***************************************************************************)
(* The branch converters of package bra, decoding (encoding = false).  A   *)
(* converter is [ip, state]; Convert(b) gives the bytes after the call,    *)
(* the count it returns and the converter after it.  A 32-bit word is      *)
(* [hi, lo]; c.ip stays below 2^16 for the inputs of the harness.          *)
(***************************************************************************)
\* v - k modulo 2^32, 0 <= k < 2^16
Sub32(v, k) ==
  IF v.lo >= k THEN [hi |-> v.hi, lo |-> v.lo - k]
  ELSE [hi |-> (v.hi + Half - 1) % Half, lo |-> v.lo + Half - k]

\* binary.LittleEndian.Uint32 / PutUint32
LeWord(w) == [lo |-> w[1] + 256 * w[2], hi |-> w[3] + 256 * w[4]]
LeBytes(v) == << v.lo % 256, v.lo \div 256, v.hi % 256, v.hi \div 256 >>

\* binary.BigEndian.Uint32 / PutUint32
BeWord(w) == [hi |-> 256 * w[1] + w[2], lo |-> 256 * w[3] + w[4]]
BeBytes(v) == << v.hi \div 256, v.hi % 256, v.lo \div 256, v.lo % 256 >>

\* one step of the loop of arm.Convert on the word w: [w, ip]
ArmWord(w, ip) ==
  LET v == Sub32(LeWord(w), (ip + 4) \div 4) IN
  [w |-> IF w[4] = 235 THEN LeBytes([hi |-> (v.hi % 256) + 235 * 256, lo |-> v.lo]) ELSE w,
   ip |-> ip + 4]

\* one step of the loop of ppc.Convert
PpcWord(w, ip) ==
  LET v == Sub32(BeWord(w), ip) IN
  [w |-> IF w[1] \div 4 = 18 /\ w[4] % 4 = 1
           THEN BeBytes([hi |-> (v.hi % 1024) + 18432, lo |-> v.lo]) ELSE w,
   ip |-> ip + 4]

\* one step of the loop of sparc.Convert: v <<= 2; v -= ip; v &= 0x01ffffff;
\* v -= 1 << 24; v ^= 0xff000000; v >>= 2; v |= 0x40000000
SparcWord(w, ip) ==
  LET v0 == BeWord(w)
      shl == [hi |-> ((v0.hi * 4) % Half) + (v0.lo \div (Half \div 4)), lo |-> (v0.lo * 4) % Half]
      sub == Sub32(shl, ip)
      low == [hi |-> sub.hi % 512, lo |-> sub.lo]
      dec == [hi |-> (low.hi + Half - 256) % Half, lo |-> low.lo]
      flip == [hi |-> (255 - (dec.hi \div 256)) * 256 + (dec.hi % 256), lo |-> dec.lo]
      shr == [hi |-> flip.hi \div 4, lo |-> (flip.lo \div 4) + (flip.hi % 4) * (Half \div 4)]
  IN
  [w |-> IF (w[1] = 64 /\ w[2] < 64) \/ (w[1] = 127 /\ w[2] >= 192)
           THEN BeBytes([hi |-> shr.hi + 16384, lo |-> shr.lo]) ELSE w,
   ip |-> ip + 4]

\* the loop of the three aligned converters from word k on
RECURSIVE AlignedFrom(_, _, _, _)
AlignedFrom(kind, c, b, k) ==
  IF 4 * k + 4 > Len(b) THEN [b |-> b, n |-> 4 * k, c |-> c]
  ELSE LET w == SubSeq(b, 4 * k + 1, 4 * k + 4)
           r == CASE kind = "ARM" -> ArmWord(w, c.ip)
                  [] kind = "PPC" -> PpcWord(w, c.ip)
                  [] OTHER -> SparcWord(w, c.ip)
       IN AlignedFrom(kind, [c EXCEPT !.ip = r.ip],
                      SubSeq(b, 1, 4 * k) \o r.w \o SubSeq(b, 4 * k + 5, Len(b)), k + 1)

test86MSByte(b) == b = 0 \/ b = 255

bcjLookAhead == 4

\* the first p >= pos below the limit with b[p] & 0xfe = 0xe8, else the limit
\* (pos itself when it is not below the limit); offsets count from 0
RECURSIVE BcjScan(_, _)
BcjScan(b, p) ==
  IF p < Len(b) - bcjLookAhead /\ b[p + 1] \notin {232, 233} THEN BcjScan(b, p + 1) ELSE p

\* v -= cur; with a mask: if the byte at sh is 0 or 0xff, flip the bytes up to it
\* and subtract again
BcjTarget(w, cur, mask) ==
  LET v == LeBytes(Sub32(LeWord(w), cur))
      top == (mask \div 2) + 1
      flipped == [k \in 1..4 |-> IF k <= top THEN 255 - v[k] ELSE v[k]]
  IN
  IF mask # 0 /\ test86MSByte(v[top]) THEN LeBytes(Sub32(LeWord(flipped), cur)) ELSE v

\* the loop of bcj.Convert from pos on, with the mask so far
RECURSIVE BcjFrom(_, _, _, _)
BcjFrom(c, b, pos, mask) ==
  LET p == BcjScan(b, pos)
      d == p - pos
      m == IF d > 2 THEN 0 ELSE mask \div (2 ^ d)
  IN
  IF p >= Len(b) - bcjLookAhead
    THEN [b |-> b, n |-> p, c |-> [ip |-> c.ip + p, state |-> m]]
  ELSE IF m # 0 /\ (m > 4 \/ m = 3 \/ test86MSByte(b[p + (m \div 2) + 2]))
    THEN BcjFrom(c, b, p + 1, (m \div 2) + 4)
  ELSE IF test86MSByte(b[p + 5])
    THEN LET v == BcjTarget(SubSeq(b, p + 2, p + 5), c.ip + bcjLookAhead + 1 + p, m) IN
         BcjFrom(c, SubSeq(b, 1, p + 1) \o SubSeq(v, 1, 3) \o << (256 - (v[4] % 2)) % 256 >>
                       \o SubSeq(b, p + 6, Len(b)),
                 p + bcjLookAhead + 1, 0)
  ELSE BcjFrom(c, b, p + 1, (m \div 2) + 4)

BraKinds == {"BCJ", "ARM", "PPC", "SPARC"}

\* conv.Size()
BraSize(kind) == IF kind = "BCJ" THEN bcjLookAhead + 1 ELSE 4

\* conv.Convert(b, false)
BraConvert(kind, c, b) ==
  IF Len(b) < BraSize(kind) THEN [b |-> b, n |-> 0, c |-> c]
  ELSE IF kind = "BCJ" THEN BcjFrom(c, b, 0, c.state % 8)
  ELSE IF kind = "ARM" /\ c.ip = 0 THEN AlignedFrom(kind, [c EXCEPT !.ip = 4], b, 0)
  ELSE AlignedFrom(kind, c, b, 0)

(***************************************************************************)
(* The branch-filter harness: one bra readCloser over an upstream of up to *)
(* MaxBraLen bytes, and a client that calls Read with buffers of 0 to      *)
(* MaxBraRead bytes on the open reader.  braSt.buf is rc.buf, braSt.n is   *)
(* rc.n (the leading bytes of rc.buf the converter is done with), braSt.c  *)
(* the converter, braSt.pos the upstream bytes consumed, braSt.out the     *)
(* bytes returned so far; braSt.last tells of the latest Read whether its  *)
(* buffer was non-empty, whether it returned bytes, and its error.         *)
(***************************************************************************)
MaxBraLen == 6
MaxBraRead == 6
MaxBraFairLen == 3

\* input bytes that make the converter's cases happen
BraBytes(kind) ==
  CASE kind = "BCJ" -> {232, 0, 1}
    [] kind = "ARM" -> {235, 0}
    [] kind = "PPC" -> {72, 1}
    [] OTHER -> {64, 0}

NewConv == [ip |-> 0, state |-> 0]

\* io.CopyN(&rc.buf, rc.rc, want): the bytes copied and whether it returns io.EOF
BraCopyN(st, want) ==
  LET k == IF want <= 0 THEN 0 ELSE Min2(want, Len(st.in) - st.pos) IN
  [bytes |-> SubSeq(st.in, st.pos + 1, st.pos + k), eof |-> want > 0 /\ k < want]

\* bytes.Buffer.Read(p) with len(p) = k: an empty buffer gives io.EOF unless k = 0
BufRead(buf, k) ==
  IF buf = << >> THEN [n |-> 0, err |-> IF k = 0 THEN "nil" ELSE "EOF"]
  ELSE [n |-> Min2(k, Len(buf)), err |-> "nil"]

\* Read before rc.n was introduced: the whole buffer is converted on every call,
\* and handed out whole when the converter returns 0
BraReadWhole(st, len, fails) ==
  LET cp == BraCopyN(st, IF len > BraSize(st.kind) THEN len - Len(st.buf)
                         ELSE BraSize(st.kind) - Len(st.buf))
      buf == st.buf \o cp.bytes
      cv == BraConvert(st.kind, st.c, buf)
      rd == BufRead(cv.b, IF cv.n > 0 THEN Min2(cv.n, len) ELSE len)
  IN
  IF fails THEN [st EXCEPT !.last = [asked |-> FALSE, got |-> FALSE, err |-> "errBuffering"]]
  ELSE [st EXCEPT !.pos = @ + Len(cp.bytes), !.c = cv.c,
                  !.buf = SubSeq(cv.b, rd.n + 1, Len(cv.b)),
                  !.out = @ \o SubSeq(cv.b, 1, rd.n),
                  !.last = [asked |-> len > 0, got |-> rd.n > 0, err |-> rd.err]]

\* readCloser.Read(p) with len(p) = len; fails: the upstream returns an error
\* that is not io.EOF before any byte
BraReadResult(st, len, fails) ==
  LET cp == BraCopyN(st, IF len > BraSize(st.kind) THEN len - Len(st.buf)
                         ELSE BraSize(st.kind) - Len(st.buf))
      buf == st.buf \o cp.bytes
      n1 == IF cp.eof /\ Len(buf) < BraSize(st.kind) THEN Len(buf) ELSE st.n
      cv == BraConvert(st.kind, st.c, SubSeq(buf, n1 + 1, Len(buf)))
      done == SubSeq(buf, 1, n1) \o cv.b
      n2 == n1 + cv.n
      rd == BufRead(done, Min2(n2, len))
  IN
  IF fails THEN [st EXCEPT !.last = [asked |-> FALSE, got |-> FALSE, err |-> "errBuffering"]]
  ELSE [st EXCEPT !.pos = @ + Len(cp.bytes), !.c = cv.c, !.n = n2 - rd.n,
                  !.buf = SubSeq(done, rd.n + 1, Len(done)),
                  !.out = @ \o SubSeq(done, 1, rd.n),
                  !.last = [asked |-> len > 0, got |-> rd.n > 0, err |-> rd.err]]

BraInitUpTo(maxLen) ==
  /\ \E kind \in BraKinds, len \in 0..maxLen :
       \E in \in [1..len -> BraBytes(kind)] :
         braSt = [kind |-> kind, in |-> in, pos |-> 0, buf |-> << >>, n |-> 0,
                  c |-> NewConv, out |-> << >>,
                  last |-> [asked |-> FALSE, got |-> FALSE, err |-> "none"]]
  /\ IdleMain /\ IdlePool /\ IdleSeek /\ IdleVol
  /\ IdleSig /\ IdleFr /\ IdleAes /\ IdleReg /\ IdleList /\ IdleSi
  /\ IdleGo /\ IdleKey /\ IdleDelta /\ IdleFi

BraInit == BraInitUpTo(MaxBraLen)

braFrame == << earlyVars, goSt, keySt, deltaSt, fiSt >>

\* readCloser.Read on a reader that has not been closed
BraRead ==
  /\ \E len \in 0..MaxBraRead, fails \in BOOLEAN :
       braSt' = BraReadResult(braSt, len, fails)
  /\ UNCHANGED braFrame

SpecBra == BraInit /\ [][BraRead]_vars

\* converting the whole input in one pass: the converted bytes, then the tail the
\* converter leaves alone
C29_OnePass == BraConvert(braSt.kind, NewConv, braSt.in).b

\* C29: for BCJ, ARM, PPC and SPARC and every split into Read calls, the bytes
\* returned so far, followed by the bytes of rc.buf the converter is done with,
\* are the leading bytes of the one-pass conversion of the input; nothing the
\* upstream has delivered is lost; and a Read with a non-empty buffer returns
\* no byte only when every byte of the input has been returned.
C29_SplitIndependent ==
  LET done == braSt.out \o SubSeq(braSt.buf, 1, braSt.n) IN
  /\ braSt.n <= Len(braSt.buf)
  /\ Len(braSt.out) + Len(braSt.buf) = braSt.pos
  /\ done = SubSeq(C29_OnePass, 1, Len(done))
  /\ (braSt.last.err = "nil" /\ braSt.last.asked /\ ~braSt.last.got) =>
       braSt.out = C29_OnePass

\* small Reads of a BCJ input with a converted call: part of the converted call
\* has been returned, the rest of it waits in rc.buf together with bytes the
\* converter is not done with
C29_Witness ==
  /\ braSt.kind = "BCJ" /\ braSt.last.got
  /\ Len(braSt.out) \in 1..(bcjLookAhead - 1)
  /\ braSt.n > 0 /\ braSt.n < Len(braSt.buf)
  /\ SubSeq(C29_OnePass, 1, bcjLookAhead + 1) # SubSeq(braSt.in, 1, bcjLookAhead + 1)

\* a consumer that reads until io.EOF: it keeps calling Read with a non-empty
\* buffer, and the upstream does not fail
BraReadSome ==
  /\ \E len \in 1..MaxBraRead : braSt' = BraReadResult(braSt, len, FALSE)
  /\ UNCHANGED braFrame

\* the end of the stream does not depend on its length: the consumer is run
\* on the inputs of up to MaxBraFairLen bytes
BraFairInit == BraInitUpTo(MaxBraFairLen)

FairSpecBra == BraFairInit /\ [][BraRead]_vars /\ WF_vars(BraReadSome)

\* the upstream is exhausted and every buffered byte has been returned
C30_Exhausted == braSt.pos = Len(braSt.in) /\ braSt.buf = << >>

\* C30 as stated: once the upstream is exhausted and every byte has been
\* returned, the consumer's Reads with a non-empty buffer lead to io.EOF.
C30_EndsWithEOF == C30_Exhausted ~> (braSt.last.err = "EOF")

\* what the code does instead: no Read of the filter reader returns io.EOF
C30_NeverEOF == braSt.last.err # "EOF"

====
